---- MODULE Spec2Model ----
(***************************************************************************)
(* A model of src/src/package.ts (vsce: packaging of a VS Code extension). *)
(*                                                                         *)
(* Text is modelled character by character: a string is a sequence of      *)
(* one-character strings, so that globs, regular expressions, URL joins    *)
(* and extension tests are computed on the characters as the code computes *)
(* them.  "LF", "CR" and "TAB" stand for the control characters.           *)
(*                                                                         *)
(* Three specifications share the variables:                               *)
(*   SpecCollect   collectFiles (the ignore engine), lines 737-800         *)
(*   SpecMarkdown  one MarkdownProcessor.onFile call, lines 353-497        *)
(*   Spec          processFiles over the default processors, 802-831       *)
(***************************************************************************)
EXTENDS Integers, Sequences, FiniteSets, TLC

\* ------------------------------------------------------------------
\* Strings
\* ------------------------------------------------------------------

Range(s) == {s[i] : i \in DOMAIN s}

StartsWith(s, p) == Len(s) >= Len(p) /\ SubSeq(s, 1, Len(p)) = p

EndsWith(s, p) == Len(s) >= Len(p) /\ SubSeq(s, Len(s) - Len(p) + 1, Len(s)) = p

\* JavaScript's \s, as far as the alphabet of the model goes.
IsSpace(c) == c \in {" ", "TAB", "LF", "CR"}

RECURSIVE TrimLeft(_)
TrimLeft(s) == IF s # <<>> /\ IsSpace(Head(s)) THEN TrimLeft(Tail(s)) ELSE s

RECURSIVE TrimRight(_)
TrimRight(s) ==
    IF s # <<>> /\ IsSpace(s[Len(s)]) THEN TrimRight(SubSeq(s, 1, Len(s) - 1)) ELSE s

\* String.prototype.trim
Trim(s) == TrimRight(TrimLeft(s))

\* String.prototype.split on a class of single characters: "a,,b" gives
\* "a", "", "b" and "" gives "".
RECURSIVE SplitAcc(_, _, _)
SplitAcc(s, seps, cur) ==
    IF s = <<>> THEN <<cur>>
    ELSE IF Head(s) \in seps THEN <<cur>> \o SplitAcc(Tail(s), seps, <<>>)
    ELSE SplitAcc(Tail(s), seps, Append(cur, Head(s)))

RECURSIVE DropSlashes(_)
DropSlashes(s) == IF s # <<>> /\ Head(s) = "/" THEN DropSlashes(Tail(s)) ELSE s

\* String.prototype.split(/\/+/): a run of slashes is one separator.
RECURSIVE SlashSplitAcc(_, _)
SlashSplitAcc(s, cur) ==
    IF s = <<>> THEN <<cur>>
    ELSE IF Head(s) = "/" THEN <<cur>> \o SlashSplitAcc(DropSlashes(s), <<>>)
    ELSE SlashSplitAcc(Tail(s), Append(cur, Head(s)))

SlashSplit(s) == SlashSplitAcc(s, <<>>)

\* The elements of a sequence that satisfy Test, in order (Array.prototype.filter).
Filter(s, Test(_)) == SelectSeq(s, Test)

\* Array.prototype.map
Map(s, F(_)) == [i \in DOMAIN s |-> F(s[i])]

\* const v = ...; in the rest of the function (v is computed once).
Let(v, Rest(_)) == Rest(v)

\* ------------------------------------------------------------------
\* minimatch(file, pattern, { dot: true }), minimatch 3.x, for patterns
\* over literal characters, "*", "?" and "**" (no braces, classes, extglobs
\* or escapes: the alphabet of the model has none of their characters).
\* ------------------------------------------------------------------

GlobStar == <<"*","*">>

DotDirs == {<<".">>, <<".",".">>}

HasMagic(seg) == \E i \in DOMAIN seg : seg[i] \in {"*", "?"}

\* One path part against one magic pattern part: "*" is [^/]*? and "?" is [^/].
RECURSIVE WildMatch(_, _)
WildMatch(f, p) ==
    IF p = <<>> THEN f = <<>>
    ELSE IF Head(p) = "*"
        THEN WildMatch(f, Tail(p)) \/ (f # <<>> /\ WildMatch(Tail(f), p))
    ELSE /\ f # <<>>
         /\ (Head(p) = "?" \/ Head(p) = Head(f))
         /\ WildMatch(Tail(f), Tail(p))

\* A part without magic must be equal; a magic part never matches the empty
\* part, and one that starts with a wildcard never matches "." or ".."
\* (the pattern start of the dot option).
SegMatch(f, p) ==
    IF ~HasMagic(p) THEN f = p
    ELSE /\ f # <<>>
         /\ ~(Head(p) \in {"*", "?"} /\ f \in DotDirs)
         /\ WildMatch(f, p)

\* Minimatch.prototype.matchOne with partial = false.
RECURSIVE MatchOne(_, _)
RECURSIVE Swallow(_, _)
MatchOne(file, pattern) ==
    IF file = <<>> /\ pattern = <<>> THEN TRUE
    ELSE IF file = <<>> THEN FALSE                      \* ran out of file
    ELSE IF pattern = <<>> THEN Len(file) = 1 /\ file[1] = <<>>   \* trailing slash
    ELSE IF Head(pattern) = GlobStar THEN
        IF Len(pattern) = 1
            THEN \A i \in DOMAIN file : file[i] \notin DotDirs
            ELSE Swallow(file, Tail(pattern))
    ELSE SegMatch(Head(file), Head(pattern)) /\ MatchOne(Tail(file), Tail(pattern))

\* The loop of matchOne that lets "**" swallow leading parts of the file.
Swallow(file, rest) ==
    IF file = <<>> THEN FALSE
    ELSE \/ MatchOne(file, rest)
         \/ (Head(file) \notin DotDirs /\ Swallow(Tail(file), rest))

RECURSIVE NegateCount(_)
NegateCount(p) == IF p # <<>> /\ Head(p) = "!" THEN 1 + NegateCount(Tail(p)) ELSE 0

Minimatch(f, pattern) ==
    IF pattern # <<>> /\ Head(pattern) = "#" THEN FALSE          \* a comment
    ELSE IF Trim(pattern) = <<>> THEN f = <<>>
    ELSE LET n    == NegateCount(pattern)
             body == SubSeq(pattern, n + 1, Len(pattern))
             hit  == MatchOne(SlashSplit(f), SlashSplit(body))
         IN  IF n % 2 = 1 THEN ~hit ELSE hit

\* ------------------------------------------------------------------
\* collectFiles (lines 737-800)
\* ------------------------------------------------------------------

defaultIgnore == <<
    <<".","v","s","c","o","d","e","i","g","n","o","r","e">>, <<"p","a","c","k","a","g","e","-","l","o","c","k",".","j","s","o","n">>, <<"y","a","r","n",".","l","o","c","k">>, <<".","e","d","i","t","o","r","c","o","n","f","i","g">>,
    <<".","n","p","m","r","c">>, <<".","y","a","r","n","r","c">>, <<".","g","i","t","a","t","t","r","i","b","u","t","e","s">>, <<"*",".","t","o","d","o">>, <<"t","s","l","i","n","t",".","y","a","m","l">>,
    <<".","e","s","l","i","n","t","r","c","*">>, <<".","b","a","b","e","l","r","c","*">>, <<".","p","r","e","t","t","i","e","r","r","c">>, <<"I","S","S","U","E","_","T","E","M","P","L","A","T","E",".","m","d">>,
    <<"C","O","N","T","R","I","B","U","T","I","N","G",".","m","d">>, <<"P","U","L","L","_","R","E","Q","U","E","S","T","_","T","E","M","P","L","A","T","E",".","m","d">>, <<"C","O","D","E","_","O","F","_","C","O","N","D","U","C","T",".","m","d">>,
    <<".","g","i","t","h","u","b">>, <<".","t","r","a","v","i","s",".","y","m","l">>, <<"a","p","p","v","e","y","o","r",".","y","m","l">>, <<"*","*","/",".","g","i","t","/","*","*">>, <<"*","*","/","*",".","v","s","i","x">>,
    <<"*","*","/",".","D","S","_","S","t","o","r","e">>, <<"*","*","/","*",".","v","s","i","x","m","a","n","i","f","e","s","t">>, <<"*","*","/",".","v","s","c","o","d","e","-","t","e","s","t","/","*","*">> >>

\* /\r$/m: a carriage return at the end of the string or before a line feed.
EndsLineWithCR(f) ==
    \E i \in DOMAIN f : f[i] = "CR" /\ (i = Len(f) \/ f[i + 1] = "LF")

NoCRFile(f) == ~EndsLineWithCR(f)

\* line 779
DropCRFiles(files) == Filter(files, NoCRFile)

NonEmpty(s) == s # <<>>

NotComment(i) == ~(TrimLeft(i) # <<>> /\ Head(TrimLeft(i)) = "#")

\* line 785: split into lines, trim, drop empty lines and comments.
ParseIgnore(rawIgnore) ==
    Filter(Filter(Map(SplitAcc(rawIgnore, {"LF", "CR"}, <<>>), Trim), NonEmpty), NotComment)

\* /(^|\/)[^/]*\*[^/]*$/: the last path part of the pattern holds a "*".
LastPartHasStar(i) ==
    \E k \in DOMAIN i : i[k] = "*" /\ \A j \in (k + 1)..Len(i) : i[j] # "/"

PossibleFolder(i) == ~LastPartHasStar(i)

\* A slip in the glob appended to a folder name: one level only.
FolderGlobOneLevel(i) == IF EndsWith(i, <<"/">>) THEN i \o <<"*">> ELSE i \o <<"/","*">>

FolderGlob(i) == IF EndsWith(i, <<"/">>) THEN i \o <<"*","*">> ELSE i \o <<"/","*","*">>

\* line 788
AddFolderGlobs(ignore) == ignore \o Map(Filter(ignore, PossibleFolder), FolderGlob)

\* The combined list without the forced reinclusion of the manifest.
CombineIgnoreNoManifest(ignore) == defaultIgnore \o ignore

\* line 791
CombineIgnore(ignore) == defaultIgnore \o ignore \o << <<"!","p","a","c","k","a","g","e",".","j","s","o","n">> >>

\* /^\s*!/
IsNegatePattern(i) == TrimLeft(i) # <<>> /\ Head(TrimLeft(i)) = "!"

IsIgnorePattern(i) == ~IsNegatePattern(i)

\* lines 794-795
IgnoreOf(rawIgnore) == Filter(CombineIgnore(AddFolderGlobs(ParseIgnore(rawIgnore))), IsIgnorePattern)

NegateOf(rawIgnore) == Filter(CombineIgnore(AddFolderGlobs(ParseIgnore(rawIgnore))), IsNegatePattern)

\* The final filter with the negation marker left on the reinclude patterns.
KeepFileMarkerKept(f, ignore, negate) ==
    \/ ~(\E k \in DOMAIN ignore : Minimatch(f, ignore[k]))
    \/ \E k \in DOMAIN negate : Minimatch(f, negate[k])

\* line 798: the predicate of the final filter; i.substr(1) strips the marker.
KeepFile(f, ignore, negate) ==
    \/ ~(\E k \in DOMAIN ignore : Minimatch(f, ignore[k]))
    \/ \E k \in DOMAIN negate : Minimatch(f, Tail(negate[k]))

FilterFiles(files, ignore, negate) ==
    LET Keep(f) == KeepFile(f, ignore, negate) IN Filter(files, Keep)

\* The list collectFiles resolves to when .vscodeignore reads as rawIgnore.
CollectFilesOf(files, rawIgnore) ==
    FilterFiles(DropCRFiles(files), IgnoreOf(rawIgnore), NegateOf(rawIgnore))

\* ------------------------------------------------------------------
\* Character classes, case, search
\* ------------------------------------------------------------------

UpperChars == <<"A","B","C","D","E","F","G","H","I","J","K","L","M","N","O","P","Q","R","S","T","U","V","W","X","Y","Z">>

LowerChars == <<"a","b","c","d","e","f","g","h","i","j","k","l","m","n","o","p","q","r","s","t","u","v","w","x","y","z">>

Digits == Range(<<"0","1","2","3","4","5","6","7","8","9">>)

LowerChar(c) ==
    IF \E i \in DOMAIN UpperChars : UpperChars[i] = c
        THEN LowerChars[CHOOSE i \in DOMAIN UpperChars : UpperChars[i] = c]
        ELSE c

UpperChar(c) ==
    IF \E i \in DOMAIN LowerChars : LowerChars[i] = c
        THEN UpperChars[CHOOSE i \in DOMAIN LowerChars : LowerChars[i] = c]
        ELSE c

\* String.prototype.toLowerCase, toUpperCase
ToLowerCase(s) == [i \in DOMAIN s |-> LowerChar(s[i])]

ToUpperCase(s) == [i \in DOMAIN s |-> UpperChar(s[i])]

\* \w
IsWordChar(c) == c \in Range(UpperChars) \cup Range(LowerChars) \cup Digits \cup {"_"}

\* The text of s from position i on.
From(s, i) == SubSeq(s, i, Len(s))

\* The places where needle occurs in s.
Occurrences(s, needle) ==
    { i \in 1..(Len(s) - Len(needle) + 1) : SubSeq(s, i, i + Len(needle) - 1) = needle }

\* The first place from which s holds one of the characters of stops, or
\* Len(s) + 1.
FirstOf(s, stops) ==
    IF \E i \in DOMAIN s : s[i] \in stops
        THEN CHOOSE i \in DOMAIN s : s[i] \in stops /\ \A j \in 1..(i - 1) : s[j] \notin stops
        ELSE Len(s) + 1

\* A value that is no string: JavaScript's undefined and null.
Undefined == <<"undefined">>

\* JavaScript truthiness of a string-or-undefined.
Truthy(s) == s # Undefined /\ s # <<>>

\* a || b
OrElse(a, b) == IF Truthy(a) THEN a ELSE b

\* ------------------------------------------------------------------
\* url-join 1.x: the parts joined with "/", then normalised
\* ------------------------------------------------------------------

RECURSIVE JoinSlash(_)
JoinSlash(parts) ==
    IF parts = <<>> THEN <<>>
    ELSE IF Len(parts) = 1 THEN parts[1]
    ELSE parts[1] \o <<"/">> \o JoinSlash(Tail(parts))

\* str.replace(/:\//g, '://')
RECURSIVE ProtocolSlashes(_)
ProtocolSlashes(s) ==
    IF s = <<>> THEN <<>>
    ELSE IF StartsWith(s, <<":","/">>) THEN <<":","/","/">> \o ProtocolSlashes(From(s, 3))
    ELSE <<Head(s)>> \o ProtocolSlashes(Tail(s))

\* str.replace(/([^:\s])\/+/g, '$1/')
RECURSIVE CollapseSlashes(_)
CollapseSlashes(s) ==
    IF s = <<>> THEN <<>>
    ELSE IF Len(s) >= 2 /\ Head(s) # ":" /\ ~IsSpace(Head(s)) /\ s[2] = "/"
        THEN <<Head(s), "/">> \o CollapseSlashes(DropSlashes(Tail(s)))
    ELSE <<Head(s)>> \o CollapseSlashes(Tail(s))

\* str.replace(/\/(\?|&|#[^!])/g, '$1')
RECURSIVE DropSlashBeforeQuery(_)
DropSlashBeforeQuery(s) ==
    IF s = <<>> THEN <<>>
    ELSE IF /\ Len(s) >= 2 /\ Head(s) = "/"
            /\ \/ s[2] \in {"?", "&"}
               \/ (Len(s) >= 3 /\ s[2] = "#" /\ s[3] # "!")
        THEN IF s[2] = "#"
                THEN <<s[2], s[3]>> \o DropSlashBeforeQuery(From(s, 4))
                ELSE <<s[2]>> \o DropSlashBeforeQuery(From(s, 3))
    ELSE <<Head(s)>> \o DropSlashBeforeQuery(Tail(s))

\* urljoin(...parts), for parts without "?".
UrlJoin(parts) == DropSlashBeforeQuery(CollapseSlashes(ProtocolSlashes(JoinSlash(parts))))

\* ------------------------------------------------------------------
\* url.parse (Node's legacy parser), for URLs without credentials or port
\* ------------------------------------------------------------------

SchemeChars == Range(UpperChars) \cup Range(LowerChars) \cup Digits \cup {".", "+", "-"}

\* The length of the protocol with its colon, /^([a-z0-9.+-]+:)/i, or 0.
ProtocolLen(s) ==
    LET n == FirstOf(s, {":"})
    IN  IF n <= Len(s) /\ n > 1 /\ \A i \in 1..(n - 1) : s[i] \in SchemeChars
            THEN n ELSE 0

SlashedProtocols == { <<"h","t","t","p",":">>, <<"h","t","t","p","s",":">>, <<"f","t","p",":">>, <<"g","o","p","h","e","r",":">>, <<"f","i","l","e",":">> }

HostlessProtocols == { <<"j","a","v","a","s","c","r","i","p","t",":">> }

\* The characters that end a host (those of the parser's list that a string
\* of the model can hold).
NonHostChars == {"%", "/", "?", ";", "#", "'", "{", "}", "|", "^",
                 "<", ">", " ", "CR", "LF", "TAB"}

UrlParse(src) ==
    Let(Trim(src), LAMBDA s :
    Let(ProtocolLen(s), LAMBDA n :
    Let(IF n > 0 THEN ToLowerCase(SubSeq(s, 1, n)) ELSE Undefined, LAMBDA protocol :
    Let(From(s, n + 1), LAMBDA rest0 :
    Let(n > 0 /\ StartsWith(rest0, <<"/","/">>) /\ protocol \notin HostlessProtocols, LAMBDA slashes :
    Let(IF slashes THEN From(rest0, 3) ELSE rest0, LAMBDA rest1 :
    Let(/\ protocol \notin HostlessProtocols
        /\ (slashes \/ (n > 0 /\ protocol \notin SlashedProtocols)), LAMBDA hasHost :
    Let(FirstOf(rest1, NonHostChars), LAMBDA hostEnd :
    Let(IF hasHost THEN ToLowerCase(SubSeq(rest1, 1, hostEnd - 1)) ELSE Undefined, LAMBDA host :
    Let(IF hasHost THEN From(rest1, hostEnd) ELSE rest1, LAMBDA rest2 :
    Let(SubSeq(rest2, 1, FirstOf(rest2, {"#"}) - 1), LAMBDA noHash :
    Let(SubSeq(noHash, 1, FirstOf(noHash, {"?"}) - 1), LAMBDA name :
    Let(IF name = <<>> /\ protocol \in SlashedProtocols /\ Truthy(host) THEN <<"/">> ELSE name,
        LAMBDA pathname :
        [protocol |-> protocol, host |-> host, pathname |-> pathname,
         path |-> pathname \o From(noHash, Len(name) + 1)])))))))))))))

\* ------------------------------------------------------------------
\* Trusted hosts (lines 133-184)
\* ------------------------------------------------------------------

TrustedSVGSources == {
    <<"a","p","i",".","b","i","n","t","r","a","y",".","c","o","m">>, <<"a","p","i",".","t","r","a","v","i","s","-","c","i",".","c","o","m">>, <<"a","p","i",".","t","r","a","v","i","s","-","c","i",".","o","r","g">>, <<"a","p","p",".","f","o","s","s","a",".","i","o">>,
    <<"b","a","d","g","e",".","b","u","i","l","d","k","i","t","e",".","c","o","m">>, <<"b","a","d","g","e",".","f","u","r","y",".","i","o">>, <<"b","a","d","g","e",".","w","a","f","f","l","e",".","i","o">>, <<"b","a","d","g","e","n",".","n","e","t">>,
    <<"b","a","d","g","e","s",".","f","r","a","p","s","o","f","t",".","c","o","m">>, <<"b","a","d","g","e","s",".","g","i","t","t","e","r",".","i","m">>, <<"b","a","d","g","e","s",".","g","r","e","e","n","k","e","e","p","e","r",".","i","o">>,
    <<"c","d","n",".","t","r","a","v","i","s","-","c","i",".","c","o","m">>, <<"c","d","n",".","t","r","a","v","i","s","-","c","i",".","o","r","g">>, <<"c","i",".","a","p","p","v","e","y","o","r",".","c","o","m">>, <<"c","i","r","c","l","e","c","i",".","c","o","m">>,
    <<"c","l","a",".","o","p","e","n","s","o","u","r","c","e",".","m","i","c","r","o","s","o","f","t",".","c","o","m">>, <<"c","o","d","a","c","y",".","c","o","m">>, <<"c","o","d","e","c","l","i","m","a","t","e",".","c","o","m">>, <<"c","o","d","e","c","o","v",".","i","o">>,
    <<"c","o","v","e","r","a","l","l","s",".","i","o">>, <<"d","a","v","i","d","-","d","m",".","o","r","g">>, <<"d","e","e","p","s","c","a","n",".","i","o">>, <<"d","e","v",".","a","z","u","r","e",".","c","o","m">>, <<"d","o","c","s",".","r","s">>,
    <<"f","l","a","t",".","b","a","d","g","e","n",".","n","e","t">>, <<"g","e","m","n","a","s","i","u","m",".","c","o","m">>, <<"g","i","t","h","o","s","t",".","i","o">>, <<"g","i","t","l","a","b",".","c","o","m">>, <<"g","o","d","o","c",".","o","r","g">>,
    <<"g","o","r","e","p","o","r","t","c","a","r","d",".","c","o","m">>, <<"i","m","g",".","s","h","i","e","l","d","s",".","i","o">>, <<"i","s","i","t","m","a","i","n","t","a","i","n","e","d",".","c","o","m">>,
    <<"m","a","r","k","e","t","p","l","a","c","e",".","v","i","s","u","a","l","s","t","u","d","i","o",".","c","o","m">>, <<"n","o","d","e","s","e","c","u","r","i","t","y",".","i","o">>, <<"o","p","e","n","c","o","l","l","e","c","t","i","v","e",".","c","o","m">>,
    <<"s","n","y","k",".","i","o">>, <<"t","r","a","v","i","s","-","c","i",".","c","o","m">>, <<"t","r","a","v","i","s","-","c","i",".","o","r","g">>, <<"v","i","s","u","a","l","s","t","u","d","i","o",".","c","o","m">>,
    <<"v","s","m","a","r","k","e","t","p","l","a","c","e","b","a","d","g","e",".","a","p","p","h","b",".","c","o","m">>, <<"w","w","w",".","b","i","t","h","o","u","n","d",".","i","o">>, <<"w","w","w",".","v","e","r","s","i","o","n","e","y","e",".","c","o","m">> }

\* lines 178-180
isHostTrusted(host) == ToLowerCase(host) \in TrustedSVGSources

\* lines 182-184: /^https:\/\/github\.com\/|^git@github\.com:/ on the repository, or on '' without one
isGitHubRepository(repository) ==
    LET r == OrElse(repository, <<>>)
    IN  StartsWith(r, <<"h","t","t","p","s",":","/","/","g","i","t","h","u","b",".","c","o","m","/">>) \/ StartsWith(r, <<"g","i","t","@","g","i","t","h","u","b",".","c","o","m",":">>)

\* ------------------------------------------------------------------
\* Paths and regular expressions on paths
\* ------------------------------------------------------------------

\* util.normalize: backslashes become slashes.
Normalize(path) == [i \in DOMAIN path |-> IF path[i] = "\\" THEN "/" ELSE path[i]]

\* new RegExp('^' + pattern + '$').test(s) for a pattern of literal
\* characters and unescaped dots (a dot matches any character but a line end).
DotMatch(pattern, s, ignoreCase) ==
    /\ Len(s) = Len(pattern)
    /\ \A i \in DOMAIN pattern :
        \/ pattern[i] = "." /\ s[i] \notin {"LF", "CR"}
        \/ IF ignoreCase THEN LowerChar(pattern[i]) = LowerChar(s[i])
                         ELSE pattern[i] = s[i]

\* path.extname: from the last dot of the base name, unless that dot starts it.
BaseName(path) ==
    LET parts == SlashSplit(path) IN parts[Len(parts)]

ExtName(path) ==
    LET base == BaseName(path)
        dots == { i \in DOMAIN base : base[i] = "." }
        last == CHOOSE i \in dots : \A j \in dots : j <= i
    IN  IF dots = {} \/ last = 1 THEN <<>> ELSE From(base, last)

\* ------------------------------------------------------------------
\* Markdown documents
\*
\* A document is the sequence of the constructs the code's regular
\* expressions and the renderer tell apart:
\*   text         text without any of the constructs below
\*   placeholder  the phrase "This is the README for your extension "
\*   link         [title](link), or ![title](link) when image; title holds
\*                the one image construct nested in it, if any
\*   issue        " #number" or " repo#number" (repo is owner/name)
\*   img          an HTML <img src="link">
\*   svg          an HTML <svg> tag
\* ------------------------------------------------------------------

Item(k, image, title, link, repo) ==
    [k |-> k, image |-> image, title |-> title, link |-> link, repo |-> repo]

Text == Item("text", FALSE, <<>>, <<>>, <<>>)

Placeholder == Item("placeholder", FALSE, <<>>, <<>>, <<>>)

Link(title, link) == Item("link", FALSE, title, link, <<>>)

Image(link) == Item("link", TRUE, <<>>, link, <<>>)

Issue(repo, number) == Item("issue", FALSE, <<>>, number, repo)

HtmlImg(src) == Item("img", FALSE, <<>>, src, <<>>)

SvgTag == Item("svg", FALSE, <<>>, <<>>, <<>>)

\* ------------------------------------------------------------------
\* MarkdownProcessor (lines 353-497)
\* ------------------------------------------------------------------

\* Object.create(null); objects are functions from keys to values.
EmptyObject == [k \in {} |-> Undefined]

\* { ...a, ...b }
Spread(a, b) == [k \in DOMAIN a \cup DOMAIN b |-> IF k \in DOMAIN b THEN b[k] ELSE a[k]]

NoRepository == [kind |-> "none", url |-> Undefined]

\* lines 469-475: the repository as a string, null when there is none.
RepositoryOf(manifest) ==
    IF manifest.repository.kind \in {"string", "object"}
        THEN manifest.repository.url ELSE Undefined

\* The place of the leftmost match of /github\.com\/([^/]+)\/([^/]+)(\/|$)/,
\* as the text after "github.com/", or Undefined.
GitHubTail(repository) ==
    LET Tails == { i \in Occurrences(repository, <<"g","i","t","h","u","b",".","c","o","m","/">>) :
                     LET after == From(repository, i + 11)
                         a     == FirstOf(after, {"/"})
                     IN  /\ a > 1 /\ a <= Len(after)
                         /\ FirstOf(From(after, a + 1), {"/"}) > 1 }
    IN  IF Tails = {} THEN Undefined
        ELSE From(repository, (CHOOSE i \in Tails : \A j \in Tails : i <= j) + 11)

\* match[2].replace(/\.git$/i, '')
StripDotGit(name) ==
    IF EndsWith(ToLowerCase(name), <<".","g","i","t">>) THEN SubSeq(name, 1, Len(name) - 4) ELSE name

NoGuess == [content |-> Undefined, images |-> Undefined, repository |-> Undefined]

\* lines 468-496; NoGuess stands for null.
guessBaseUrls(manifest) ==
    Let(RepositoryOf(manifest), LAMBDA repository :
    Let(IF Truthy(repository) THEN GitHubTail(repository) ELSE Undefined, LAMBDA tail :
        IF tail = Undefined THEN NoGuess
        ELSE Let(FirstOf(tail, {"/"}), LAMBDA a :
             Let(SubSeq(tail, 1, a - 1), LAMBDA account :
             Let(From(tail, a + 1), LAMBDA rest :
             Let(StripDotGit(SubSeq(rest, 1, FirstOf(rest, {"/"}) - 1)), LAMBDA name :
             Let(<<"h","t","t","p","s",":","/","/","g","i","t","h","u","b",".","c","o","m","/">> \o account \o <<"/">> \o name, LAMBDA root :
                 [content    |-> root \o <<"/","b","l","o","b","/","m","a","s","t","e","r">>,
                  images     |-> root \o <<"/","r","a","w","/","m","a","s","t","e","r">>,
                  repository |-> root])))))))

\* lines 360-369
MarkdownProcessor(manifest, name, regexp, assetType, options) ==
    Let(guessBaseUrls(manifest), LAMBDA guess :
        [kind           |-> "markdown",
         name           |-> name,
         regexp         |-> regexp,
         assetType      |-> assetType,
         baseContentUrl |-> OrElse(options.baseContentUrl, guess.content),
         baseImagesUrl  |-> OrElse(options.baseImagesUrl,
                                   OrElse(options.baseContentUrl, guess.images)),
         repositoryUrl  |-> guess.repository,
         isGitHub       |-> isGitHubRepository(guess.repository),
         assets         |-> <<>>,
         vsix           |-> EmptyObject])

\* lines 499-510
ReadmeProcessor(manifest, options) ==
    MarkdownProcessor(manifest, <<"R","E","A","D","M","E",".","m","d">>, <<"e","x","t","e","n","s","i","o","n","/","r","e","a","d","m","e",".","m","d">>,
                      <<"M","i","c","r","o","s","o","f","t",".","V","i","s","u","a","l","S","t","u","d","i","o",".","S","e","r","v","i","c","e","s",".","C","o","n","t","e","n","t",".","D","e","t","a","i","l","s">>, options)

ChangelogProcessor(manifest, options) ==
    MarkdownProcessor(manifest, <<"C","H","A","N","G","E","L","O","G",".","m","d">>, <<"e","x","t","e","n","s","i","o","n","/","c","h","a","n","g","e","l","o","g",".","m","d">>,
                      <<"M","i","c","r","o","s","o","f","t",".","V","i","s","u","a","l","S","t","u","d","i","o",".","S","e","r","v","i","c","e","s",".","C","o","n","t","e","n","t",".","C","h","a","n","g","e","l","o","g">>, options)

\* line 388: !/^\w+:\/\//.test(link) && link[0] !== '#'
IsLinkRelative(link) ==
    LET n == FirstOf(link, {":"})
    IN  /\ ~(/\ n > 1 /\ n + 2 <= Len(link)
             /\ \A i \in 1..(n - 1) : IsWordChar(link[i])
             /\ link[n + 1] = "/" /\ link[n + 2] = "/")
        /\ ~(link # <<>> /\ Head(link) = "#")

Done(items) == [error |-> "", items |-> items]

Thrown(error) == [error |-> error, items |-> <<>>]

\* line 390: the condition under which a relative target is refused.
RefusesTarget(p, item) == ~Truthy(p.baseContentUrl) /\ ~Truthy(p.baseImagesUrl)

\* The prefix of the other kind of target.
PrefixOfSwapped(p, item) == IF item.image THEN p.baseContentUrl ELSE p.baseImagesUrl

\* line 399
PrefixOf(p, item) == IF item.image THEN p.baseImagesUrl ELSE p.baseContentUrl

\* lines 387-408: contents.replace(markdownPathRegex, urlReplace); a throw of
\* urlReplace ends the replace.
RECURSIVE ReplaceLinks(_, _)
RECURSIVE urlReplace(_, _)
urlReplace(p, item) ==
    Let(IsLinkRelative(item.link), LAMBDA isLinkRelative :
        IF RefusesTarget(p, item) /\ isLinkRelative THEN Thrown("no repository")
        ELSE Let(ReplaceLinks(p, item.title), LAMBDA title :
             Let(PrefixOf(p, item), LAMBDA prefix :
                 IF title.error # "" THEN title
                 ELSE IF ~Truthy(prefix) \/ ~isLinkRelative
                     THEN Done(<<[item EXCEPT !.title = title.items]>>)
                 ELSE Done(<<[item EXCEPT !.title = title.items,
                                          !.link = UrlJoin(<<prefix, item.link>>)]>>))))

ReplaceLinks(p, items) ==
    IF items = <<>> THEN Done(<<>>)
    ELSE Let(IF Head(items).k = "link" THEN urlReplace(p, Head(items))
             ELSE Done(<<Head(items)>>), LAMBDA first :
             IF first.error # "" THEN first
             ELSE Let(ReplaceLinks(p, Tail(items)), LAMBDA rest :
                      IF rest.error # "" THEN rest
                      ELSE Done(first.items \o rest.items)))

\* lines 411-433: an issue reference becomes a link when the repository is on
\* GitHub; ownerAndRepositoryName.split('/', 2).
issueReplace(p, item) ==
    LET parts == SplitAcc(item.repo, {"/"}, <<>>)
        owner == IF Truthy(item.repo) THEN parts[1] ELSE Undefined
        name  == IF Truthy(item.repo) /\ Len(parts) >= 2 THEN parts[2] ELSE Undefined
    IN  IF ~p.isGitHub THEN item
        ELSE IF Truthy(owner) /\ Truthy(name) /\ Truthy(item.link)
            THEN Link(<<>>, UrlJoin(<< <<"h","t","t","p","s",":","/","/","g","i","t","h","u","b",".","c","o","m">>, owner, name, <<"i","s","s","u","e","s">>, item.link >>))
        ELSE IF ~Truthy(owner) /\ ~Truthy(name) /\ Truthy(item.link)
            THEN Link(<<>>, UrlJoin(<< p.repositoryUrl, <<"i","s","s","u","e","s">>, item.link >>))
        ELSE item

\* line 435
ReplaceIssues(p, items) ==
    [i \in DOMAIN items |-> IF items[i].k = "issue" THEN issueReplace(p, items[i]) ELSE items[i]]

\* markdown-it's validateLink: the targets it refuses to render.
ValidateLink(link) ==
    LET l == ToLowerCase(Trim(link))
    IN  \/ ~(\E bad \in { <<"v","b","s","c","r","i","p","t",":">>, <<"j","a","v","a","s","c","r","i","p","t",":">>, <<"f","i","l","e",":">>, <<"d","a","t","a",":">> } : StartsWith(l, bad))
        \/ \E good \in { <<"d","a","t","a",":","i","m","a","g","e","/","g","i","f",";">>, <<"d","a","t","a",":","i","m","a","g","e","/","p","n","g",";">>, <<"d","a","t","a",":","i","m","a","g","e","/","j","p","e","g",";">>,
                         <<"d","a","t","a",":","i","m","a","g","e","/","w","e","b","p",";">> } : StartsWith(l, good)

\* The src of every img element of the rendered document, in document order
\* (line 437-440): markdown images the renderer accepts, and HTML img tags.
RECURSIVE ImgSources(_)
ImgSources(items) ==
    IF items = <<>> THEN <<>>
    ELSE LET it == Head(items)
             own == IF it.k = "img" THEN <<it.link>>
                    ELSE IF it.k = "link" /\ it.image /\ ValidateLink(it.link) THEN <<it.link>>
                    ELSE IF it.k = "link" /\ ~it.image THEN ImgSources(it.title)
                    ELSE <<>>
         IN  own \o ImgSources(Tail(items))

\* The checks of an image with the test for an HTTPS source and the test for
\* an SVG data URL left out.
ImgErrorSvgHostOnly(src) ==
    Let(UrlParse(src), LAMBDA srcUrl :
        IF EndsWith(ToLowerCase(srcUrl.pathname), <<".","s","v","g">>) /\ ~isHostTrusted(srcUrl.host)
            THEN "svg restricted"
        ELSE "")

\* lines 441-454: the error thrown for one image, "" for none. decodeURI is
\* the identity on the alphabet of the model (no "%").
ImgError(src) ==
    Let(UrlParse(src), LAMBDA srcUrl :
        IF /\ srcUrl.protocol = <<"d","a","t","a",":">>
           /\ srcUrl.host = <<"i","m","a","g","e">>
           /\ Occurrences(ToLowerCase(srcUrl.path), <<"/","s","v","g">>) # {}
            THEN "svg data url"
        ELSE IF srcUrl.protocol # <<"h","t","t","p","s",":">> THEN "not https"
        ELSE IF EndsWith(ToLowerCase(srcUrl.pathname), <<".","s","v","g">>) /\ ~isHostTrusted(srcUrl.host)
            THEN "svg restricted"
        ELSE "")

\* lines 440-459: the first error of the images in order, then the svg tags.
ValidateRendered(items) ==
    Let(Map(ImgSources(items), ImgError), LAMBDA errors :
        IF \E i \in DOMAIN errors : errors[i] # ""
            THEN errors[CHOOSE i \in DOMAIN errors :
                           errors[i] # "" /\ \A j \in 1..(i - 1) : errors[j] = ""]
        ELSE IF \E i \in DOMAIN items : items[i].k = "svg" THEN "svg tag"
        ELSE "")

Asset(type, path) == [type |-> type, path |-> path]

Resolved(p, file) == [proc |-> p, error |-> "", file |-> file]

Rejected(p, error, file) == [proc |-> p, error |-> error, file |-> file]

\* line 374: the processor takes the file.
MarkdownMatches(p, file) == DotMatch(p.regexp, Normalize(file.path), TRUE)

\* line 378: the asset is recorded before the file is read.
MarkdownBeforeRead(p, file) ==
    [p EXCEPT !.assets = Append(@, Asset(p.assetType, Normalize(file.path)))]

\* lines 380-464: onFile from the moment read(file) has given file.contents.
MarkdownAfterRead(p, file) ==
    IF \E i \in DOMAIN file.contents : file.contents[i].k = "placeholder"
        THEN Rejected(p, "readme not edited", file)
    ELSE Let(ReplaceLinks(p, file.contents), LAMBDA linked :
             IF linked.error # "" THEN Rejected(p, linked.error, file)
             ELSE Let(ReplaceIssues(p, linked.items), LAMBDA out :
                  Let(ValidateRendered(out), LAMBDA error :
                      IF error # "" THEN Rejected(p, error, file)
                      ELSE Resolved(p, [path |-> file.path, contents |-> out]))))

\* lines 371-465: MarkdownProcessor.onFile with the processor p.
MarkdownOnFile(p, file) ==
    IF ~MarkdownMatches(p, file) THEN Resolved(p, file)
    ELSE MarkdownAfterRead(MarkdownBeforeRead(p, file), file)

\* ------------------------------------------------------------------
\* The other processors (lines 81-87, 186-255, 257-351, 512-623)
\* ------------------------------------------------------------------

\* A JavaScript object whose key order matters: the pairs in insertion order.
ObjectSet(obj, key, value) ==
    IF \E i \in DOMAIN obj : obj[i].key = key
        THEN [i \in DOMAIN obj |-> IF obj[i].key = key THEN [key |-> key, value |-> value]
                                   ELSE obj[i]]
        ELSE Append(obj, [key |-> key, value |-> value])

ObjectGet(obj, key) ==
    IF \E i \in DOMAIN obj : obj[i].key = key
        THEN obj[CHOOSE i \in DOMAIN obj : obj[i].key = key].value
        ELSE Undefined

\* Array.prototype.join
RECURSIVE Join(_, _)
Join(parts, sep) ==
    IF parts = <<>> THEN <<>>
    ELSE IF Len(parts) = 1 THEN parts[1]
    ELSE parts[1] \o sep \o Join(Tail(parts), sep)

\* _.flatten
RECURSIVE Flatten(_)
Flatten(lists) == IF lists = <<>> THEN <<>> ELSE Head(lists) \o Flatten(Tail(lists))

\* lines 89-99
getUrl(repository) ==
    IF repository.kind \in {"string", "object"} /\ Truthy(repository.url)
        THEN repository.url ELSE Undefined

\* lines 101-109: owner/name stands for a GitHub repository.
getRepositoryUrl(repository) ==
    LET result == getUrl(repository)
        parts  == SplitAcc(result, {"/"}, <<>>)
    IN  IF Truthy(result) /\ Len(parts) = 2 /\ parts[1] # <<>> /\ parts[2] # <<>>
            THEN <<"h","t","t","p","s",":","/","/","g","i","t","h","u","b",".","c","o","m","/">> \o result \o <<".","g","i","t">>
            ELSE result

\* manifest.contributes.localizations, [] without any.
LocalizationsOf(manifest) == manifest.localizations

\* lines 188-240; the fields of the manifest that the model does not vary
\* (display name, engine, categories, badges, Q&A, dependencies) are left out.
ManifestProcessor(manifest) ==
    LET repository == getRepositoryUrl(manifest.repository)
        links      == [repository |-> repository]
        Label(loc) == loc.languageId
    IN  [kind     |-> "manifest",
         manifest |-> manifest,
         assets   |-> <<>>,
         vsix     |-> [id        |-> manifest.name,
                       version   |-> manifest.version,
                       publisher |-> manifest.publisher,
                       flags     |-> <<"P","u","b","l","i","c">>,
                       links     |-> IF isGitHubRepository(repository)
                                        THEN Spread(links, [github |-> repository])
                                        ELSE links,
                       localizedLanguages |->
                            Join(Map(LocalizationsOf(manifest), Label), <<",">>)]]

\* lines 242-254: answer is what util.read gives when the user is asked.
ManifestOnEnd(p, answer) ==
    IF p.manifest.publisher = <<"v","s","c","o","d","e","-","s","a","m","p","l","e","s">> THEN Rejected(p, "publisher not allowed", <<>>)
    ELSE IF p.manifest.repository.kind = "none" /\ ToLowerCase(answer) # <<"y">>
        THEN Rejected(p, "aborted", <<>>)
    ELSE Resolved(p, <<>>)

\* lines 124-128
toLanguagePackTags(translations, languageId) ==
    LET Tags(t) == << <<"_","_","l","p","_">> \o t.id, <<"_","_","l","p","-">> \o languageId \o <<"_">> \o t.id >>
    IN  Flatten(Map(translations, Tags))

\* _.uniq
RECURSIVE Uniq(_)
Uniq(s) ==
    IF s = <<>> THEN <<>>
    ELSE LET front == Uniq(SubSeq(s, 1, Len(s) - 1))
         IN  IF s[Len(s)] \in Range(front) THEN front ELSE Append(front, s[Len(s)])

\* lines 257-351
TagsProcessor(manifest) ==
    [kind |-> "tags", manifest |-> manifest, assets |-> <<>>, vsix |-> EmptyObject]

\* lines 259-296: TagsProcessor.Keywords, in the order of its keys.
Keywords == <<
    [key |-> <<"g","i","t">>, tags |-> << <<"g","i","t">> >>],
    [key |-> <<"n","p","m">>, tags |-> << <<"n","o","d","e">> >>],
    [key |-> <<"s","p","e","l","l">>, tags |-> << <<"m","a","r","k","d","o","w","n">> >>],
    [key |-> <<"b","o","o","t","s","t","r","a","p">>, tags |-> << <<"b","o","o","t","s","t","r","a","p">> >>],
    [key |-> <<"l","i","n","t">>, tags |-> << <<"l","i","n","t","e","r","s">> >>],
    [key |-> <<"l","i","n","t","i","n","g">>, tags |-> << <<"l","i","n","t","e","r","s">> >>],
    [key |-> <<"r","e","a","c","t">>, tags |-> << <<"j","a","v","a","s","c","r","i","p","t">> >>],
    [key |-> <<"j","s">>, tags |-> << <<"j","a","v","a","s","c","r","i","p","t">> >>],
    [key |-> <<"n","o","d","e">>, tags |-> << <<"j","a","v","a","s","c","r","i","p","t">>, <<"n","o","d","e">> >>],
    [key |-> <<"c","+","+">>, tags |-> << <<"c","+","+">> >>],
    [key |-> <<"C","p","l","u","s","p","l","u","s">>, tags |-> << <<"c","+","+">> >>],
    [key |-> <<"x","m","l">>, tags |-> << <<"x","m","l">> >>],
    [key |-> <<"a","n","g","u","l","a","r">>, tags |-> << <<"j","a","v","a","s","c","r","i","p","t">> >>],
    [key |-> <<"j","q","u","e","r","y">>, tags |-> << <<"j","a","v","a","s","c","r","i","p","t">> >>],
    [key |-> <<"p","h","p">>, tags |-> << <<"p","h","p">> >>],
    [key |-> <<"p","y","t","h","o","n">>, tags |-> << <<"p","y","t","h","o","n">> >>],
    [key |-> <<"l","a","t","e","x">>, tags |-> << <<"l","a","t","e","x">> >>],
    [key |-> <<"r","u","b","y">>, tags |-> << <<"r","u","b","y">> >>],
    [key |-> <<"j","a","v","a">>, tags |-> << <<"j","a","v","a">> >>],
    [key |-> <<"e","r","l","a","n","g">>, tags |-> << <<"e","r","l","a","n","g">> >>],
    [key |-> <<"s","q","l">>, tags |-> << <<"s","q","l">> >>],
    [key |-> <<"n","o","d","e","j","s">>, tags |-> << <<"n","o","d","e">> >>],
    [key |-> <<"c","#">>, tags |-> << <<"c","#">> >>],
    [key |-> <<"c","s","s">>, tags |-> << <<"c","s","s">> >>],
    [key |-> <<"j","a","v","a","s","c","r","i","p","t">>, tags |-> << <<"j","a","v","a","s","c","r","i","p","t">> >>],
    [key |-> <<"f","t","p">>, tags |-> << <<"f","t","p">> >>],
    [key |-> <<"h","a","s","k","e","l","l">>, tags |-> << <<"h","a","s","k","e","l","l">> >>],
    [key |-> <<"u","n","i","t","y">>, tags |-> << <<"u","n","i","t","y">> >>],
    [key |-> <<"t","e","r","m","i","n","a","l">>, tags |-> << <<"t","e","r","m","i","n","a","l">> >>],
    [key |-> <<"p","o","w","e","r","s","h","e","l","l">>, tags |-> << <<"p","o","w","e","r","s","h","e","l","l">> >>],
    [key |-> <<"l","a","r","a","v","e","l">>, tags |-> << <<"l","a","r","a","v","e","l">> >>],
    [key |-> <<"m","e","t","e","o","r">>, tags |-> << <<"m","e","t","e","o","r">> >>],
    [key |-> <<"e","m","m","e","t">>, tags |-> << <<"e","m","m","e","t">> >>],
    [key |-> <<"e","s","l","i","n","t">>, tags |-> << <<"l","i","n","t","e","r","s">> >>],
    [key |-> <<"t","f","s">>, tags |-> << <<"t","f","s">> >>],
    [key |-> <<"r","u","s","t">>, tags |-> << <<"r","u","s","t">> >>] >>

\* obj.name || [] for a property that holds a list: a manifest without the
\* property has no field of that name.
ListOf(obj, name) == IF name \in DOMAIN obj THEN obj[name] ELSE <<>>

\* lines 300 and 308-322: (contributes && contributes[name]) || []
Contributed(manifest, name) ==
    IF "contributes" \in DOMAIN manifest THEN ListOf(manifest.contributes, name) ELSE <<>>

\* line 302
doesContribute(manifest, name) == Len(Contributed(manifest, name)) > 0

\* s.replace(/\W/g, '')
WordCharsOf(s) == Filter(s, IsWordChar)

\* lines 117-122
toExtensionTags(extensions) ==
    LET Tag(s) == <<"_","_","e","x","t","_">> \o s
    IN  Map(Filter(Map(extensions, WordCharsOf), NonEmpty), Tag)

\* lines 311-312
LanguageTags(l) ==
    << l.id >> \o ListOf(l, "aliases") \o toExtensionTags(ListOf(l, "extensions"))

\* lines 314-317: the text after onLanguage: of the events that have it.
LanguageActivations(activationEvents) ==
    LET IsLanguageEvent(e) == /\ StartsWith(e, <<"o","n","L","a","n","g","u","a","g","e",":">>)
                              /\ \A i \in DOMAIN e : e[i] \notin {"LF", "CR"}
        Language(e) == From(e, Len(<<"o","n","L","a","n","g","u","a","g","e",":">>) + 1)
    IN  Map(Filter(activationEvents, IsLanguageEvent), Language)

\* lines 319-320: a grammar without a language gives undefined.
GrammarLanguage(g) == IF "language" \in DOMAIN g THEN g.language ELSE Undefined

\* \b at place i of s: a word character on one side only.
WordBoundary(s, i) ==
    (i > 1 /\ IsWordChar(s[i - 1])) # (i <= Len(s) /\ IsWordChar(s[i]))

\* line 327: new RegExp('\\b(?:' + escapeRegExp(k) + ')(?!\\w)', 'gi').test(description)
KeywordRegExpTest(k, description) ==
    \E i \in Occurrences(ToLowerCase(description), ToLowerCase(k)) :
        /\ WordBoundary(description, i)
        /\ ~(i + Len(k) <= Len(description) /\ IsWordChar(description[i + Len(k)]))

\* lines 325-327
DescriptionKeywords(description) ==
    LET TagsOf(entry) == IF KeywordRegExpTest(entry.key, description) THEN entry.tags ELSE <<>>
    IN  Flatten(Map(Keywords, TagsOf))

\* lines 304-309: the tags of a category that has contributions.
FixedTags(manifest, name, tags) == IF doesContribute(manifest, name) THEN tags ELSE <<>>

\* lines 311-312
LocalizationContributions(manifest) ==
    LET LocTags(l) == << <<"l","p","-">> \o l.languageId >> \o toLanguagePackTags(l.translations, l.languageId)
    IN  Flatten(Map(LocalizationsOf(manifest), LocTags))

\* lines 329-342
AllTags(manifest) ==
    ListOf(manifest, "keywords")
    \o FixedTags(manifest, "themes", << <<"t","h","e","m","e">>, <<"c","o","l","o","r","-","t","h","e","m","e">> >>)
    \o FixedTags(manifest, "iconThemes", << <<"t","h","e","m","e">>, <<"i","c","o","n","-","t","h","e","m","e">> >>)
    \o FixedTags(manifest, "snippets", << <<"s","n","i","p","p","e","t">> >>)
    \o FixedTags(manifest, "keybindings", << <<"k","e","y","b","i","n","d","i","n","g","s">> >>)
    \o FixedTags(manifest, "debuggers", << <<"d","e","b","u","g","g","e","r","s">> >>)
    \o FixedTags(manifest, "jsonValidation", << <<"j","s","o","n">> >>)
    \o LocalizationContributions(manifest)
    \o Flatten(Map(Contributed(manifest, "languages"), LanguageTags))
    \o LanguageActivations(ListOf(manifest, "activationEvents"))
    \o Map(Contributed(manifest, "grammars"), GrammarLanguage)
    \o DescriptionKeywords(ListOf(manifest, "description"))

\* The explicit keywords alone.
TagsOnEndKeywordsOnly(p) ==
    Resolved([p EXCEPT !.vsix = Spread(@, [tags |->
                Join(Filter(Uniq(ListOf(p.manifest, "keywords")), Truthy), <<",">>)])], <<>>)

\* lines 298-350; contributes.localizations is the field localizations of the
\* manifest, contributes holds the other categories.
TagsOnEnd(p) ==
    Resolved([p EXCEPT !.vsix = Spread(@, [tags |->
                Join(Filter(Uniq(AllTags(p.manifest)), Truthy), <<",">>)])], <<>>)

\* lines 517-530: the text after "SEE LICENSE IN ", or Undefined for the
\* default filter.
LicenseReference(manifest) ==
    LET license == OrElse(manifest.license, <<>>)
        prefix  == <<"S","E","E"," ","L","I","C","E","N","S","E"," ","I","N"," ">>
    IN  IF /\ StartsWith(license, prefix) /\ Len(license) > Len(prefix)
           /\ \A i \in DOMAIN license : license[i] \notin {"LF", "CR"}
            THEN From(license, Len(prefix) + 1) ELSE Undefined

\* line 542
LicenseAssetType == <<"M","i","c","r","o","s","o","f","t",".","V","i","s","u","a","l","S","t","u","d","i","o",".","S","e","r","v","i","c","e","s",".","C","o","n","t","e","n","t",".","L","i","c","e","n","s","e">>

LicenseProcessor(manifest) ==
    [kind |-> "license", didFindLicense |-> FALSE, reference |-> LicenseReference(manifest),
     assets |-> <<>>, vsix |-> [license |-> Undefined]]

\* lines 523-526: /^extension\/license(\.(md|txt))?$/i, or the expression
\* built from the reference (its dots match any character).
LicenseFilter(p, name) ==
    IF p.reference = Undefined
        THEN ToLowerCase(name) \in { <<"e","x","t","e","n","s","i","o","n","/","l","i","c","e","n","s","e">>, <<"e","x","t","e","n","s","i","o","n","/","l","i","c","e","n","s","e",".","m","d">>,
                                     <<"e","x","t","e","n","s","i","o","n","/","l","i","c","e","n","s","e",".","t","x","t">> }
        ELSE DotMatch(<<"e","x","t","e","n","s","i","o","n","/">> \o p.reference, name, FALSE)

\* onFile without the test of didFindLicense (line 533).
LicenseOnFileEveryMatch(p, file) ==
    LET normalizedPath == Normalize(file.path)
        bare           == ExtName(normalizedPath) = <<>>
        assetPath      == IF bare THEN normalizedPath \o <<".","t","x","t">> ELSE normalizedPath
    IN  IF LicenseFilter(p, normalizedPath)
            THEN Resolved([p EXCEPT !.assets = Append(@, Asset(LicenseAssetType, assetPath)),
                                    !.vsix = Spread(@, [license |-> assetPath]),
                                    !.didFindLicense = TRUE],
                          IF bare THEN [file EXCEPT !.path = @ \o <<".","t","x","t">>] ELSE file)
            ELSE Resolved(p, file)

\* lines 532-549
LicenseOnFile(p, file) ==
    LET normalizedPath == Normalize(file.path)
        bare           == ExtName(normalizedPath) = <<>>
        assetPath      == IF bare THEN normalizedPath \o <<".","t","x","t">> ELSE normalizedPath
    IN  IF ~p.didFindLicense /\ LicenseFilter(p, normalizedPath)
            THEN Resolved([p EXCEPT !.assets = Append(@, Asset(LicenseAssetType, assetPath)),
                                    !.vsix = Spread(@, [license |-> assetPath]),
                                    !.didFindLicense = TRUE],
                          IF bare THEN [file EXCEPT !.path = @ \o <<".","t","x","t">>] ELSE file)
            ELSE Resolved(p, file)

\* line 568
IconAssetType == <<"M","i","c","r","o","s","o","f","t",".","V","i","s","u","a","l","S","t","u","d","i","o",".","S","e","r","v","i","c","e","s",".","I","c","o","n","s",".","D","e","f","a","u","l","t">>

\* lines 557-562
IconProcessor(manifest) ==
    [kind |-> "icon", didFindIcon |-> FALSE,
     icon |-> IF Truthy(manifest.icon) THEN <<"e","x","t","e","n","s","i","o","n","/">> \o manifest.icon ELSE Undefined,
     assets |-> <<>>, vsix |-> [icon |-> Undefined]]

\* lines 564-572
IconOnFile(p, file) ==
    IF Normalize(file.path) = p.icon
        THEN Resolved([p EXCEPT !.didFindIcon = TRUE,
                                !.assets = Append(@, Asset(IconAssetType, Normalize(file.path))),
                                !.vsix = Spread(@, [icon |-> p.icon])], file)
        ELSE Resolved(p, file)

\* The finalize hook of the icon stage without its check.
IconOnEndUnchecked(p) == Resolved(p, <<>>)

\* lines 574-580
IconOnEnd(p) ==
    IF Truthy(p.icon) /\ ~p.didFindIcon THEN Rejected(p, "icon not found", <<>>)
    ELSE Resolved(p, <<>>)

\* translation.path.replace(/^\.[\/\\]/, '')
StripDotSlash(path) ==
    IF Len(path) >= 2 /\ path[1] = "." /\ path[2] \in {"/", "\\"} THEN From(path, 3) ELSE path

\* The language map keeping the first path declared for a language.
RECURSIVE TranslationsFirstWins(_, _)
TranslationsFirstWins(entries, translations) ==
    IF entries = <<>> THEN translations
    ELSE LET e == Head(entries)
             language == ToUpperCase(e.languageId)
             next == IF e.id = <<"v","s","c","o","d","e">> /\ Truthy(e.path) /\ ObjectGet(translations, language) = Undefined
                         THEN ObjectSet(translations, language,
                                        <<"e","x","t","e","n","s","i","o","n","/">> \o Normalize(StripDotSlash(e.path)))
                         ELSE translations
         IN  TranslationsFirstWins(Tail(entries), next)

\* lines 598-605, over the translations of every localization in order:
\* the last path declared with id 'vscode' for a language stays.
RECURSIVE TranslationsByLanguage(_, _)
TranslationsByLanguage(entries, translations) ==
    IF entries = <<>> THEN translations
    ELSE LET e == Head(entries)
             next == IF e.id = <<"v","s","c","o","d","e">> /\ Truthy(e.path)
                         THEN ObjectSet(translations, ToUpperCase(e.languageId),
                                        <<"e","x","t","e","n","s","i","o","n","/">> \o Normalize(StripDotSlash(e.path)))
                         ELSE translations
         IN  TranslationsByLanguage(Tail(entries), next)

\* lines 608-610: the map inverted, from path to language.
RECURSIVE InvertTranslations(_, _)
InvertTranslations(translations, byPath) ==
    IF translations = <<>> THEN byPath
    ELSE InvertTranslations(Tail(translations),
                            ObjectSet(byPath, Head(translations).value, Head(translations).key))

\* Every translation of every localization, with the language of its
\* localization, in the order of the manifest.
TranslationEntries(manifest) ==
    LET Entries(l) == [i \in DOMAIN l.translations |->
                          [languageId |-> l.languageId, id |-> l.translations[i].id,
                           path |-> l.translations[i].path]]
    IN  Flatten(Map(LocalizationsOf(manifest), Entries))

\* line 618
TranslationAssetType(language) == <<"M","i","c","r","o","s","o","f","t",".","V","i","s","u","a","l","S","t","u","d","i","o",".","C","o","d","e",".","T","r","a","n","s","l","a","t","i","o","n",".">> \o language

\* lines 587-611
NLSProcessor(manifest) ==
    [kind |-> "nls",
     translations |-> InvertTranslations(
                          TranslationsByLanguage(TranslationEntries(manifest), <<>>), <<>>),
     assets |-> <<>>, vsix |-> EmptyObject]

\* lines 613-622
NLSOnFile(p, file) ==
    LET normalizedPath == Normalize(file.path)
        language       == ObjectGet(p.translations, normalizedPath)
    IN  IF Truthy(language)
            THEN Resolved([p EXCEPT !.assets =
                              Append(@, Asset(TranslationAssetType(language), normalizedPath))], file)
            ELSE Resolved(p, file)

\* lines 821-831
createDefaultProcessors(manifest, options) ==
    << ManifestProcessor(manifest), TagsProcessor(manifest),
       ReadmeProcessor(manifest, options), ChangelogProcessor(manifest, options),
       LicenseProcessor(manifest), IconProcessor(manifest), NLSProcessor(manifest) >>

\* processor.onFile(file) for the processors that answer at once (line 85 for
\* those that do not override it).
OnFile(p, file) ==
    CASE p.kind = "license" -> LicenseOnFile(p, file)
      [] p.kind = "icon"    -> IconOnFile(p, file)
      [] p.kind = "nls"     -> NLSOnFile(p, file)
      [] OTHER              -> Resolved(p, file)

\* processor.onEnd() (line 86 for those that do not override it).
OnEnd(p, answer) ==
    CASE p.kind = "manifest" -> ManifestOnEnd(p, answer)
      [] p.kind = "tags"     -> TagsOnEnd(p)
      [] p.kind = "icon"     -> IconOnEnd(p)
      [] OTHER               -> Resolved(p, <<>>)

\* lines 710-714: the manifest document is the template filled in with vsix;
\* the filled-in values stand for the text.
toVsixManifest(assets, vsix) == vsix

\* mime's lookup, as a name of the type of an extension.
Lookup(extension) == <<"t","y","p","e"," ","o","f"," ">> \o extension

defaultExtensions ==
    << [key |-> <<".","j","s","o","n">>, value |-> <<"a","p","p","l","i","c","a","t","i","o","n","/","j","s","o","n">>],
       [key |-> <<".","v","s","i","x","m","a","n","i","f","e","s","t">>, value |-> <<"t","e","x","t","/","x","m","l">>] >>

RECURSIVE SetAll(_, _)
SetAll(obj, pairs) ==
    IF pairs = <<>> THEN obj
    ELSE SetAll(ObjectSet(obj, Head(pairs).key, Head(pairs).value), Tail(pairs))

\* lines 721-735: the extensions of the files in order of first appearance,
\* each with its type, then the two default extensions.
toContentTypes(files) ==
    LET Ext(f)     == ToLowerCase(ExtName(f.path))
        Typed(e)   == [key |-> e, value |-> Lookup(e)]
        extensions == Map(Filter(Uniq(Map(files, Ext)), NonEmpty), Typed)
    IN  SetAll(extensions, defaultExtensions)

\* ------------------------------------------------------------------
\* Inputs of collectFiles
\* ------------------------------------------------------------------

\* At most this many candidate files in a run of collectFiles.
MaxFiles == 3

\* What collectAllFiles may list (glob lists files only, sorted), in order.
\* "Icon\r" is the file macOS keeps for a custom folder icon.
CandidatePaths == <<
    <<".","g","i","t","/","c","o","n","f","i","g">>, <<"I","c","o","n","CR">>, <<"R","E","A","D","M","E",".","m","d">>, <<"a",".","t","o","d","o">>, <<"o","u","t">>, <<"o","u","t","/","a",".","j","s">>,
    <<"o","u","t","/","s","u","b","/","b",".","j","s">>, <<"p","a","c","k","a","g","e",".","j","s","o","n">>, <<"s","r","c","/","a",".","t","s">> >>

\* p is a directory on the way to q.
IsDirOf(p, q) == Len(q) > Len(p) /\ SubSeq(q, 1, Len(p)) = p /\ q[Len(p) + 1] = "/"

RECURSIVE SortedSeq(_)
SortedSeq(S) ==
    IF S = {} THEN <<>>
    ELSE LET m == CHOOSE x \in S : \A y \in S : x <= y
         IN  <<m>> \o SortedSeq(S \ {m})

PathsAt(S) == [i \in DOMAIN SortedSeq(S) |-> CandidatePaths[SortedSeq(S)[i]]]

\* The candidate lists: no path is both a file and a directory.
FileLists ==
    { PathsAt(S) : S \in { T \in SUBSET DOMAIN CandidatePaths :
        /\ Cardinality(T) <= MaxFiles
        /\ \A i, j \in T : ~IsDirOf(CandidatePaths[i], CandidatePaths[j]) } }

\* Patterns without glob syntax and without a trailing slash.
BareNames == { <<"o","u","t">>, <<"s","r","c">> }

\* Contents of .vscodeignore.
IgnoreTexts ==
    BareNames \cup { n \o <<"/","*","*">> : n \in BareNames } \cup
    { <<>>, <<"o","u","t","/">>, <<"p","a","c","k","a","g","e",".","j","s","o","n">>, <<"*","*">>, <<"*","*","LF","!","o","u","t","/","a",".","j","s">>, <<"*",".","m","d","LF","!","R","E","A","D","M","E",".","m","d">>,
      <<"#"," ","c","LF","LF"," "," ","s","r","c"," "," ","CR","LF","!","s","r","c","/","a",".","t","s">>, <<"!","o","u","t","LF","o","u","t","/","s","u","b">>, <<"!","!","R","E","A","D","M","E",".","m","d">> }

\* err.code of a failed read of .vscodeignore ("OK": the read succeeds).
ReadCodes == {"OK", "ENOENT", "EACCES"}

\* ------------------------------------------------------------------
\* Inputs of MarkdownProcessor.onFile
\* ------------------------------------------------------------------

\* At most this many constructs in a document.
MaxItems == 2

\* manifest.repository
Repositories == {
    NoRepository,
    [kind |-> "string", url |-> <<"h","t","t","p","s",":","/","/","g","i","t","h","u","b",".","c","o","m","/","o","/","r",".","g","i","t">>],
    [kind |-> "object", url |-> <<"h","t","t","p","s",":","/","/","g","i","t","l","a","b",".","c","o","m","/","o","/","r">>] }

\* options.baseContentUrl and options.baseImagesUrl
ContentUrls == { Undefined, <<"h","t","t","p","s",":","/","/","b",".","i","o","/","c","/">> }

ImagesUrls == { Undefined, <<"h","t","t","p","s",":","/","/","i",".","i","o">> }

DocItems == {
    Text,
    Placeholder,
    Link(<<>>, <<"d","o","c","/","a",".","m","d">>),
    Link(<<>>, <<"#","t","o","p">>),
    Link(<<>>, <<"h","t","t","p",":","/","/","x",".","i","o","/","a">>),
    Link(<<Image(<<"b",".","p","n","g">>)>>, <<"h","t","t","p","s",":","/","/","x",".","i","o","/">>),
    Image(<<"/","i","m","g","/","a",".","p","n","g">>),
    Image(<<"h","t","t","p","s",":","/","/","x",".","i","o","/","a",".","s","v","g">>),
    Image(<<"h","t","t","p","s",":","/","/","i","m","g",".","s","h","i","e","l","d","s",".","i","o","/","b",".","s","v","g">>),
    Image(<<"h","t","t","p",":","/","/","x",".","i","o","/","a",".","p","n","g">>),
    HtmlImg(<<"d","a","t","a",":","i","m","a","g","e","/","s","v","g","+","x","m","l",";","b","a","s","e","6","4",",","A","A">>),
    HtmlImg(<<"h","t","t","p","s",":","/","/","x",".","i","o","/","a",".","p","n","g">>),
    SvgTag,
    Issue(<<>>, <<"1","2">>),
    Issue(<<"o","2","/","r","2">>, <<"7">>) }

RECURSIVE SeqsUpTo(_, _)
SeqsUpTo(S, n) ==
    IF n = 0 THEN {<<>>}
    ELSE LET shorter == SeqsUpTo(S, n - 1)
         IN  shorter \cup { Append(s, x) : s \in shorter, x \in S }

Documents == SeqsUpTo(DocItems, MaxItems)

\* The path of the file handed to the processor.
MarkdownPaths == { <<"e","x","t","e","n","s","i","o","n","/","R","E","A","D","M","E",".","m","d">>, <<"e","x","t","e","n","s","i","o","n","/","c","h","a","n","g","e","l","o","g",".","m","d">> }

VARIABLES cf, md, pf, pk, tg

vars == <<cf, md, pf, pk, tg>>

\* ------------------------------------------------------------------
\* collectFiles as a state machine: the chain of promise callbacks
\* ------------------------------------------------------------------

NoCollect == [pc |-> "idle"]

\* processFiles has not been called.
NoProcess == [pc |-> "idle"]

\* pack has not been called.
NoPack == [pc |-> "idle"]

\* No TagsProcessor has been made.
NoTags == [pc |-> "idle"]

\* collectAllFiles has resolved to files; .vscodeignore is about to be read.
InitCollect ==
    /\ md = [pc |-> "idle"]
    /\ pf = NoProcess
    /\ pk = NoPack
    /\ tg = NoTags
    /\ \E files \in FileLists, code \in ReadCodes, text \in IgnoreTexts :
        /\ code # "OK" => text = <<>>
        /\ cf = [pc |-> "reading", candidates |-> files, files |-> files,
                 code |-> code, text |-> text,
                 rawIgnore |-> <<>>, ignore |-> <<>>, negate |-> <<>>, result |-> <<>>]

\* lines 779-782: the CR filter, then readFile with its catch: a missing
\* file reads as '', any other error rejects.
ReadIgnoreFile ==
    /\ UNCHANGED <<md, pf, pk, tg>>
    /\ cf.pc = "reading"
    /\ cf' = IF cf.code = "OK"
                THEN [cf EXCEPT !.pc = "parsing", !.files = DropCRFiles(cf.files),
                                !.rawIgnore = cf.text]
             ELSE IF cf.code = "ENOENT"
                THEN [cf EXCEPT !.pc = "parsing", !.files = DropCRFiles(cf.files),
                                !.rawIgnore = <<>>]
             ELSE [cf EXCEPT !.pc = "rejected"]

\* lines 785-798: parse, expand, combine, partition, filter.
FilterIgnored ==
    /\ UNCHANGED <<md, pf, pk, tg>>
    /\ cf.pc = "parsing"
    /\ cf' = [cf EXCEPT !.pc = "done",
                        !.ignore = IgnoreOf(cf.rawIgnore),
                        !.negate = NegateOf(cf.rawIgnore),
                        !.result = FilterFiles(cf.files, IgnoreOf(cf.rawIgnore),
                                               NegateOf(cf.rawIgnore))]

NextCollect == ReadIgnoreFile \/ FilterIgnored

SpecCollect == InitCollect /\ [][NextCollect]_vars

\* ------------------------------------------------------------------
\* One MarkdownProcessor: its construction, then onFile on one file
\* ------------------------------------------------------------------

NoProcessor == [name |-> <<>>]

InitMarkdown ==
    /\ cf = NoCollect
    /\ pf = NoProcess
    /\ pk = NoPack
    /\ tg = NoTags
    /\ \E repository \in Repositories, content \in ContentUrls, images \in ImagesUrls,
          path \in MarkdownPaths, contents \in Documents :
        md = [pc       |-> "new",
              manifest |-> [repository |-> repository],
              options  |-> [baseContentUrl |-> content, baseImagesUrl |-> images],
              file     |-> [path |-> path, contents |-> contents],
              proc     |-> NoProcessor,
              error    |-> "",
              out      |-> [path |-> <<>>, contents |-> <<>>]]

\* new ReadmeProcessor(manifest, options)
ConstructMarkdown ==
    /\ md.pc = "new"
    /\ md' = [md EXCEPT !.pc = "ready", !.proc = ReadmeProcessor(md.manifest, md.options)]
    /\ UNCHANGED <<cf, pf, pk, tg>>

\* processor.onFile(file): the promise resolves to a file or rejects.
OnFileMarkdown ==
    /\ md.pc = "ready"
    /\ md' = Let(MarkdownOnFile(md.proc, md.file), LAMBDA r :
                 [md EXCEPT !.pc = IF r.error = "" THEN "resolved" ELSE "rejected",
                            !.proc = r.proc, !.error = r.error, !.out = r.file])
    /\ UNCHANGED <<cf, pf, pk, tg>>

NextMarkdown == ConstructMarkdown \/ OnFileMarkdown

SpecMarkdown == InitMarkdown /\ [][NextMarkdown]_vars

\* ------------------------------------------------------------------
\* Inputs of processFiles
\* ------------------------------------------------------------------

\* At most this many files in a run of processFiles.
MaxPackaged == 2

\* The names collectFiles may resolve to, in its order.
PackagedNames == <<
    <<"C","H","A","N","G","E","L","O","G",".","m","d">>, <<"L","I","C","E","N","S","E">>, <<"L","I","C","E","N","S","E",".","t","x","t">>, <<"R","E","A","D","M","E",".","m","d">>, <<"R","E","A","D","M","E","_","m","d">>,
    <<"i","1","8","n","/","d","e",".","j","s","o","n">>, <<"i","1","8","n","/","o","l","d",".","j","s","o","n">>, <<"i","c","o","n",".","p","n","g">> >>

NamesAt(S) == [i \in DOMAIN SortedSeq(S) |-> PackagedNames[SortedSeq(S)[i]]]

NameLists ==
    { NamesAt(S) : S \in { T \in SUBSET DOMAIN PackagedNames : Cardinality(T) <= MaxPackaged } }

\* line 840
FileOf(f) == [path |-> <<"e","x","t","e","n","s","i","o","n","/">> \o f, localPath |-> f]

\* What readFile gives for a local path: the documents of the project.
DiskContents(localPath) ==
    IF ToLowerCase(SubSeq(localPath, 1, 6)) = <<"r","e","a","d","m","e">>
        THEN << Text, Link(<<>>, <<"d","o","c","/","a",".","m","d">>) >>
        ELSE << Text, Issue(<<>>, <<"1","2">>) >>

\* manifest.contributes.localizations
Translation(id, path) == [id |-> id, path |-> path]

Localization(languageId, translations) ==
    [languageId |-> languageId, translations |-> translations]

LocalizationLists == {
    <<>>,
    << Localization(<<"d","e">>, << Translation(<<"v","s","c","o","d","e">>, <<".","/","i","1","8","n","/","o","l","d",".","j","s","o","n">>) >>),
       Localization(<<"D","E">>, << Translation(<<"v","s","c","o","d","e">>, <<"i","1","8","n","/","d","e",".","j","s","o","n">>) >>) >>,
    << Localization(<<"d","e">>, << Translation(<<"v","s","c","o","d","e">>, <<"i","1","8","n","/","d","e",".","j","s","o","n">>) >>),
       Localization(<<"d","e">>, << Translation(<<"v","s","c","o","d","e",".","g","i","t">>, <<"i","1","8","n","/","o","l","d",".","j","s","o","n">>) >>) >>,
    << Localization(<<"f","r">>, << Translation(<<"v","s","c","o","d","e">>, <<"i","1","8","n","/","o","l","d",".","j","s","o","n">>) >>),
       Localization(<<"f","r">>, << Translation(<<"v","s","c","o","d","e">>, <<"i","1","8","n","/","d","e",".","j","s","o","n">>) >>),
       Localization(<<"d","e">>, << Translation(<<"v","s","c","o","d","e">>, <<"i","1","8","n","/","d","e",".","j","s","o","n">>) >>) >> }

\* manifest.license
Licenses == { Undefined, <<"S","E","E"," ","L","I","C","E","N","S","E"," ","I","N"," ","R","E","A","D","M","E",".","m","d">> }

\* manifest.icon
Icons == { Undefined, <<"i","c","o","n",".","p","n","g">> }

\* manifest.repository together with the answer to the question asked when
\* there is none.
RepositoryAnswers == {
    [repository |-> [kind |-> "string", url |-> <<"h","t","t","p","s",":","/","/","g","i","t","h","u","b",".","c","o","m","/","o","/","r",".","g","i","t">>], answer |-> <<>>],
    [repository |-> NoRepository, answer |-> <<"Y">>],
    [repository |-> NoRepository, answer |-> <<>>] }

ManifestOf(publisher, repository, license, icon, localizations) ==
    [name |-> <<"e","x","t">>, version |-> <<"1",".","0",".","0">>, publisher |-> publisher,
     repository |-> repository, license |-> license, icon |-> icon,
     localizations |-> localizations]

\* ------------------------------------------------------------------
\* processFiles over the default processors (lines 802-831)
\*
\* Every call of onFile is a callback of a settled promise: callbacks run in
\* the order in which they were scheduled (queue), and the completion of a
\* read of the disk comes only when no callback is left, the reads in any
\* order.
\* ------------------------------------------------------------------

\* collect (lines 833-844): the processors are made, the files are named,
\* and processFiles schedules the first stage of every file (line 803).
StartProcess(manifest, options, answer, names, run, first) ==
    [pc         |-> "transform",
     manifest   |-> manifest,
     options    |-> options,
     answer     |-> answer,
     names      |-> names,
     processors |-> createDefaultProcessors(manifest, options),
     chain      |-> [i \in DOMAIN names |-> [file |-> FileOf(names[i]), next |-> 1, state |-> "queued"]],
     queue      |-> [i \in DOMAIN names |-> i],
     ended      |-> 0,
     error      |-> "",
     result     |-> <<>>,
     run        |-> run,
     first      |-> first]

InitProcess ==
    /\ cf = NoCollect
    /\ md = [pc |-> "idle"]
    /\ pk = NoPack
    /\ tg = NoTags
    /\ \E ra \in RepositoryAnswers, license \in Licenses, icon \in Icons,
          localizations \in LocalizationLists, names \in NameLists,
          publisher \in { <<"p","u","b">>, <<"v","s","c","o","d","e","-","s","a","m","p","l","e","s">> } :
        /\ publisher = <<"v","s","c","o","d","e","-","s","a","m","p","l","e","s">>
              => license = Undefined /\ icon = Undefined /\ localizations = <<>>
        /\ pf = StartProcess(ManifestOf(publisher, ra.repository, license, icon, localizations),
                             [baseContentUrl |-> Undefined, baseImagesUrl |-> Undefined],
                             ra.answer, names, 1, <<>>)

\* util.chain: the file a stage resolves to is handed to the next stage, and
\* the chain of the file is done after the last.
Advance(i, k, file) ==
    [pf EXCEPT !.chain[i] = [file |-> file, next |-> k + 1,
                             state |-> IF k = Len(pf.processors) THEN "done" ELSE "queued"],
               !.queue = IF k = Len(pf.processors) THEN Tail(@) ELSE Append(Tail(@), i)]

\* line 803: processor.onFile(file) for the file at the head of the queue.
\* A markdown processor that takes the file records its asset and waits for
\* the read (lines 371-380); every other call resolves at once.
CallOnFile ==
    /\ pf.pc = "transform" /\ pf.queue # <<>>
    /\ LET i    == Head(pf.queue)
           k    == pf.chain[i].next
           p    == pf.processors[k]
           file == pf.chain[i].file
       IN  IF p.kind = "markdown" /\ MarkdownMatches(p, file)
               THEN pf' = [pf EXCEPT !.processors[k] = MarkdownBeforeRead(p, file),
                                     !.chain[i].state = "reading",
                                     !.queue = Tail(@)]
               ELSE LET r == OnFile(p, file)
                    IN  pf' = [Advance(i, k, r.file) EXCEPT !.processors[k] = r.proc]
    /\ UNCHANGED <<cf, md, pk, tg>>

\* lines 380-464: a read completes and onFile goes on to its end; an error
\* rejects the chain of the file and with it processFiles (line 805).
ReadCompletes ==
    /\ pf.pc = "transform" /\ pf.queue = <<>>
    /\ \E i \in DOMAIN pf.chain :
        /\ pf.chain[i].state = "reading"
        /\ pf' = Let(MarkdownAfterRead(pf.processors[pf.chain[i].next],
                          [path     |-> pf.chain[i].file.path,
                           contents |-> DiskContents(pf.chain[i].file.localPath)]),
                     LAMBDA r :
                        IF r.error # ""
                            THEN [pf EXCEPT !.pc = "rejected", !.error = r.error]
                            ELSE [pf EXCEPT !.chain[i] = [file  |-> r.file,
                                                          next  |-> pf.chain[i].next + 1,
                                                          state |-> "queued"],
                                            !.queue = <<i>>])
    /\ UNCHANGED <<cf, md, pk, tg>>

\* Promise.race in the place of Promise.all: the first chain to finish ends
\* the transforms.
AllTransformedFirstDone ==
    /\ pf.pc = "transform"
    /\ \E i \in DOMAIN pf.chain : pf.chain[i].state = "done"
    /\ pf' = [pf EXCEPT !.pc = "finalize"]
    /\ UNCHANGED <<cf, md, pk, tg>>

\* line 805: Promise.all resolves when every chain is done.
AllTransformed ==
    /\ pf.pc = "transform"
    /\ \A i \in DOMAIN pf.chain : pf.chain[i].state = "done"
    /\ pf' = [pf EXCEPT !.pc = "finalize"]
    /\ UNCHANGED <<cf, md, pk, tg>>

\* line 806, util.sequence: the next onEnd, after the one before it resolved.
CallOnEnd ==
    /\ pf.pc = "finalize" /\ pf.ended < Len(pf.processors)
    /\ LET k == pf.ended + 1
           r == OnEnd(pf.processors[k], pf.answer)
       IN  pf' = IF r.error # ""
                    THEN [pf EXCEPT !.pc = "rejected", !.error = r.error]
                    ELSE [pf EXCEPT !.processors[k] = r.proc, !.ended = k]
    /\ UNCHANGED <<cf, md, pk, tg>>

\* line 807
AssetsOf(processors) == Flatten([k \in DOMAIN processors |-> processors[k].assets])

\* The merge with the first stage to set a key winning.
RECURSIVE MergeVsixFirstWins(_, _)
MergeVsixFirstWins(processors, r) ==
    IF processors = <<>> THEN r
    ELSE MergeVsixFirstWins(Tail(processors), Spread(Head(processors).vsix, r))

\* line 808
RECURSIVE MergeVsix(_, _)
MergeVsix(processors, r) ==
    IF processors = <<>> THEN r
    ELSE MergeVsix(Tail(processors), Spread(r, Head(processors).vsix))

\* The files of the chains, the last of the input first.
ProcessedFilesReversed == [i \in DOMAIN pf.chain |-> pf.chain[Len(pf.chain) + 1 - i].file]

\* The files the chains resolved to, in the order of the input.
ProcessedFiles == [i \in DOMAIN pf.chain |-> pf.chain[i].file]

\* lines 807-816
Assemble ==
    /\ pf.pc = "finalize" /\ pf.ended = Len(pf.processors)
    /\ LET assets == AssetsOf(pf.processors)
           vsix   == MergeVsix(pf.processors, [assets |-> assets])
       IN  pf' = [pf EXCEPT
                    !.pc = "resolved",
                    !.result = << [path |-> <<"e","x","t","e","n","s","i","o","n",".","v","s","i","x","m","a","n","i","f","e","s","t">>,
                                   contents |-> toVsixManifest(assets, vsix)],
                                  [path |-> <<"[","C","o","n","t","e","n","t","_","T","y","p","e","s","]",".","x","m","l">>,
                                   contents |-> toContentTypes(ProcessedFiles)] >>
                               \o ProcessedFiles]
    /\ UNCHANGED <<cf, md, pk, tg>>

Next == CallOnFile \/ ReadCompletes \/ AllTransformed \/ CallOnEnd \/ Assemble

Spec == InitProcess /\ [][Next]_vars

\* ------------------------------------------------------------------
\* processFiles run a second time on the inputs of a first run
\* ------------------------------------------------------------------

InitRerun ==
    /\ cf = NoCollect
    /\ md = [pc |-> "idle"]
    /\ pk = NoPack
    /\ tg = NoTags
    /\ \E license \in Licenses, names \in NameLists :
        pf = StartProcess(ManifestOf(<<"p","u","b">>, [kind |-> "string", url |-> <<"h","t","t","p","s",":","/","/","g","i","t","h","u","b",".","c","o","m","/","o","/","r",".","g","i","t">>],
                                     license, Undefined, <<>>),
                          [baseContentUrl |-> Undefined, baseImagesUrl |-> Undefined],
                          <<>>, names, 1, <<>>)

\* The first run has resolved; its two documents are kept and the same
\* manifest, options and files are processed again.
RunAgain ==
    /\ pf.pc = "resolved" /\ pf.run = 1
    /\ pf' = StartProcess(pf.manifest, pf.options, pf.answer, pf.names, 2,
                          << pf.result[1], pf.result[2] >>)
    /\ UNCHANGED <<cf, md, pk, tg>>

NextRerun == Next \/ RunAgain

SpecRerun == InitRerun /\ [][NextRerun]_vars

\* ------------------------------------------------------------------
\* pack (lines 883-896) and writeVsix (lines 846-861)
\* ------------------------------------------------------------------

\* What is at the package path before pack is called.
Destinations == { "absent", "old package" }

\* How unlink may end on a destination.
UnlinkCodes(dest) == IF dest = "absent" THEN { "ENOENT" } ELSE { "OK", "EPERM" }

\* collect has been called (line 888) and processFiles with it; the package
\* path has not been touched.
InitPack ==
    /\ cf = NoCollect
    /\ md = [pc |-> "idle"]
    /\ tg = NoTags
    /\ \E ra \in RepositoryAnswers, license \in Licenses, icon \in Icons,
          names \in NameLists, dest \in Destinations :
        /\ pf = StartProcess(ManifestOf(<<"p","u","b">>, ra.repository, license, icon, <<>>),
                             [baseContentUrl |-> Undefined, baseImagesUrl |-> Undefined],
                             ra.answer, names, 1, <<>>)
        /\ pk = [pc |-> "collect", before |-> dest, dest |-> dest,
                 written |-> <<>>, error |-> ""]

\* await without a rejection: pack goes on whatever collect settled with.
PackAfterCollectAnyway == [pk EXCEPT !.pc = "unlink"]

\* line 888: await collect(manifest, options); a rejection is thrown out of
\* pack, a result is handed to writeVsix (line 892).
PackAfterCollect ==
    IF pf.pc = "rejected" THEN [pk EXCEPT !.pc = "failed", !.error = pf.error]
    ELSE [pk EXCEPT !.pc = "unlink"]

AwaitCollect ==
    /\ pk.pc = "collect" /\ pf.pc \in { "resolved", "rejected" }
    /\ pk' = PackAfterCollect
    /\ UNCHANGED <<cf, md, pf, tg>>

\* lines 847-848: the old package is removed; that there is none is no error,
\* any other error rejects.
Unlink ==
    /\ pk.pc = "unlink"
    /\ \E code \in UnlinkCodes(pk.dest) :
        pk' = CASE code = "OK"     -> [pk EXCEPT !.pc = "write", !.dest = "absent"]
                [] code = "ENOENT" -> [pk EXCEPT !.pc = "write"]
                [] OTHER           -> [pk EXCEPT !.pc = "failed", !.error = code]
    /\ UNCHANGED <<cf, md, pf, tg>>

\* lines 849-860: the entries are written to the package path; an error of
\* either stream rejects, with what was written left behind.
WriteArchive ==
    /\ pk.pc = "write"
    /\ \E finished \in BOOLEAN :
        pk' = IF finished
                THEN [pk EXCEPT !.pc = "done", !.dest = "package",
                                !.written = [i \in DOMAIN pf.result |-> pf.result[i].path]]
                ELSE [pk EXCEPT !.pc = "failed", !.dest = "partial package",
                                !.error = "stream error"]
    /\ UNCHANGED <<cf, md, pf, tg>>

NextPack == Next \/ AwaitCollect \/ Unlink \/ WriteArchive

SpecPack == InitPack /\ [][NextPack]_vars

\* ------------------------------------------------------------------
\* TagsProcessor on its own: constructed, then onEnd
\* ------------------------------------------------------------------

\* manifest.keywords, or no such property.
KeywordOptions == {
    EmptyObject,
    [keywords |-> <<>>],
    [keywords |-> << <<"g","i","t">> >>],
    [keywords |-> << <<"t","h","e","m","e">>, <<"T","h","e","m","e">>, <<"t","h","e","m","e">> >>],
    [keywords |-> << <<>>, <<"l","i","n","t","e","r">> >>] }

\* The categories of contributions that have tags of their own.
TaggedCategories ==
    { "themes", "iconThemes", "snippets", "keybindings", "debuggers", "jsonValidation" }

\* manifest.contributes with one contribution in each category of a set
\* (none, one category, all but one, or all), a category that is there
\* without contributions, or no such property.
TaggedContributions ==
    { [c \in S |-> << [label |-> <<"x">>] >>] :
        S \in { T \in SUBSET TaggedCategories :
                   Cardinality(T) <= 1 \/ Cardinality(T) >= Cardinality(TaggedCategories) - 1 } }
    \cup { [themes |-> <<>>, snippets |-> << [label |-> <<"x">>] >>] }

\* Languages, grammars (one without a language) and activation events.
LanguageOptions == {
    [contributes |-> EmptyObject, top |-> EmptyObject],
    [contributes |->
        [languages |-> << [id |-> <<"p","y">>, aliases |-> << <<"P","y","t","h","o","n">> >>,
                           extensions |-> << <<".","p","y">>, <<".">> >>] >>,
         grammars  |-> << [language |-> <<"p","y">>], [scopeName |-> <<"s","o","u","r","c","e",".","x">>] >>],
     top |-> [activationEvents |-> << <<"o","n","L","a","n","g","u","a","g","e",":","p","y">>, <<"o","n","C","o","m","m","a","n","d",":","x">>, <<"o","n","L","a","n","g","u","a","g","e",":">> >>]] }

\* manifest.description, or no such property.
DescriptionOptions == {
    EmptyObject,
    [description |-> <<"P","y","t","h","o","n"," ","t","o","o","l","s">>],
    [description |-> <<"p","y","t","h","o","n","3"," ","a","n","d"," ","c","p","y","t","h","o","n">>],
    [description |-> <<"U","s","e","s"," ","n","o","d","e",".","j","s",","," ","C","+","+"," ","a","n","d"," ","c","#">>],
    [description |-> <<"L","I","N","T","I","N","G"," ","f","o","r"," ","j","Q","u","e","r","y">>] }

TagLocalizations ==
    { <<>>, << Localization(<<"d","e">>, << Translation(<<"v","s","c","o","d","e">>, <<"i","1","8","n","/","d","e",".","j","s","o","n">>) >>) >> }

\* A manifest put together from its properties.
TagManifest(keywords, contributions, languages, description, localizations) ==
    Spread(Spread(Spread(Spread(
        ManifestOf(<<"p","u","b">>, NoRepository, Undefined, Undefined, localizations),
        IF contributions = EmptyObject /\ languages.contributes = EmptyObject
            THEN EmptyObject
            ELSE [contributes |-> Spread(contributions, languages.contributes)]),
        languages.top), keywords), description)

\* The manifest has been read; no processor has been made.
InitTags ==
    /\ cf = NoCollect
    /\ md = [pc |-> "idle"]
    /\ pf = NoProcess
    /\ pk = NoPack
    /\ \E keywords \in KeywordOptions, contributions \in TaggedContributions,
          languages \in LanguageOptions, description \in DescriptionOptions,
          localizations \in TagLocalizations :
        tg = [pc       |-> "new",
              manifest |-> TagManifest(keywords, contributions, languages,
                                       description, localizations),
              proc     |-> NoProcessor]

\* line 823: new TagsProcessor(manifest)
ConstructTags ==
    /\ tg.pc = "new"
    /\ tg' = [tg EXCEPT !.pc = "constructed", !.proc = TagsProcessor(tg.manifest)]
    /\ UNCHANGED <<cf, md, pf, pk>>

\* lines 298-350
OnEndTags ==
    /\ tg.pc = "constructed"
    /\ tg' = [tg EXCEPT !.pc = "ended", !.proc = TagsOnEnd(tg.proc).proc]
    /\ UNCHANGED <<cf, md, pf, pk>>

NextTags == ConstructTags \/ OnEndTags

SpecTags == InitTags /\ [][NextTags]_vars

\* ------------------------------------------------------------------
\* processFiles over the default processors with other processors before
\* and after them, whose metadata has keys the default processors set
\* ------------------------------------------------------------------

\* lines 81-87: a processor that only carries assets and metadata.
BaseProcessor(assets, vsix) == [kind |-> "base", assets |-> assets, vsix |-> vsix]

\* The processors put before the default ones.
EarlyProcessors == {
    <<>>,
    << BaseProcessor(<<>>, [license |-> <<"e","a","r","l","y">>]) >>,
    << BaseProcessor(<< Asset(<<"C","u","s","t","o","m",".","E","a","r","l","y">>, <<"e","x","t","e","n","s","i","o","n","/","e","a","r","l","y">>) >>,
                     [license |-> <<"e","a","r","l","y">>, tags |-> <<"e","a","r","l","y">>, extra |-> <<"e","a","r","l","y">>]) >> }

\* The processors put after the default ones.
LateProcessors == {
    <<>>,
    << BaseProcessor(<<>>, [tags |-> <<"l","a","t","e">>]) >>,
    << BaseProcessor(<< Asset(<<"C","u","s","t","o","m",".","L","a","t","e">>, <<"e","x","t","e","n","s","i","o","n","/","l","a","t","e">>) >>,
                     [icon |-> <<"l","a","t","e">>, extra |-> <<"l","a","t","e">>]),
       BaseProcessor(<<>>, [extra |-> <<"l","a","s","t">>]) >> }

InitMerge ==
    /\ cf = NoCollect
    /\ md = [pc |-> "idle"]
    /\ pk = NoPack
    /\ tg = NoTags
    /\ \E license \in Licenses, names \in NameLists,
          early \in EarlyProcessors, late \in LateProcessors :
        pf = [StartProcess(ManifestOf(<<"p","u","b">>, [kind |-> "string", url |-> <<"h","t","t","p","s",":","/","/","g","i","t","h","u","b",".","c","o","m","/","o","/","r",".","g","i","t">>],
                                      license, Undefined, <<>>),
                           [baseContentUrl |-> Undefined, baseImagesUrl |-> Undefined],
                           <<>>, names, 1, <<>>)
                EXCEPT !.processors = early \o @ \o late]

SpecMerge == InitMerge /\ [][Next]_vars

\* ------------------------------------------------------------------
\* Claims about collectFiles
\* ------------------------------------------------------------------

CollectDone == cf.pc = "done"

\* Some exclude pattern of the run matches f.
MatchesExclude(f) == \E k \in DOMAIN cf.ignore : Minimatch(f, cf.ignore[k])

\* Some reinclude pattern of the run, its negation marker stripped, matches f.
MatchesReinclude(f) == \E k \in DOMAIN cf.negate : Minimatch(f, Tail(cf.negate[k]))

IncludeRule(f) == ~MatchesExclude(f) \/ MatchesReinclude(f)

\* s is t with some elements left out, the order kept.
RECURSIVE IsSubsequence(_, _)
IsSubsequence(s, t) ==
    IF s = <<>> THEN TRUE
    ELSE IF t = <<>> THEN FALSE
    ELSE IF Head(s) = Head(t) THEN IsSubsequence(Tail(s), Tail(t))
    ELSE IsSubsequence(s, Tail(t))

\* The set equation of the claim over the file set F.
SetEquation(F) ==
    LET excluded   == { f \in F : MatchesExclude(f) }
        reincluded == { f \in F : MatchesReinclude(f) }
    IN  Range(cf.result) = (F \ excluded) \cup (reincluded \cap excluded)

\* C1 as stated: collectFiles returns exactly the candidate files that no
\* exclude pattern matches or that some reinclude pattern matches, that is
\* (F minus excluded) union (reincluded and excluded), in the order of F.
C1_IncludeRuleOverCandidates ==
    CollectDone =>
        /\ cf.result = Filter(cf.candidates, IncludeRule)
        /\ SetEquation(Range(cf.candidates))

\* C1 amended: the rule decides the candidate files that have no carriage
\* return at the end of a line; the files that have one are dropped before
\* any pattern is looked at.
C1_IncludeRuleOverFilesWithoutCR ==
    CollectDone =>
        /\ cf.result = Filter(Filter(cf.candidates, NoCRFile), IncludeRule)
        /\ SetEquation({ f \in Range(cf.candidates) : NoCRFile(f) })
        /\ IsSubsequence(cf.result, cf.candidates)

\* A run where both halves of the rule decide: a file left out by an exclude
\* pattern, and an excluded file brought back by a reinclude pattern.
C1_Witness ==
    /\ CollectDone
    /\ \E f \in Range(cf.candidates) : MatchesExclude(f) /\ ~MatchesReinclude(f)
    /\ \E f \in Range(cf.result) : MatchesExclude(f) /\ MatchesReinclude(f) /\ f # <<"p","a","c","k","a","g","e",".","j","s","o","n">>
    /\ Len(cf.result) >= 2

\* C2: when the candidate list holds the root package.json, so does the list
\* collectFiles returns, whatever the project ignore rules say.
C2_ManifestAlwaysIncluded ==
    CollectDone /\ <<"p","a","c","k","a","g","e",".","j","s","o","n">> \in Range(cf.candidates)
        => <<"p","a","c","k","a","g","e",".","j","s","o","n">> \in Range(cf.result)

\* A run whose project rules exclude package.json and that still returns it.
C2_Witness ==
    /\ CollectDone
    /\ cf.rawIgnore \in { <<"p","a","c","k","a","g","e",".","j","s","o","n">>, <<"*","*">> }
    /\ <<"p","a","c","k","a","g","e",".","j","s","o","n">> \in Range(cf.result)

\* The files of the candidate list that collectFiles leaves out.
Excluded == Range(cf.candidates) \ Range(cf.result)

\* The files left out when .vscodeignore holds only text.
ExcludedUnder(text) ==
    Range(cf.candidates) \ Range(CollectFilesOf(cf.candidates, text))

\* C3 as stated: for every candidate list, the bare pattern foo alone leaves
\* out exactly the files that foo/** alone leaves out.
C3_BareNameExcludesAsFolderGlob ==
    CollectDone /\ cf.code = "OK" /\ cf.rawIgnore \in BareNames
        => Excluded = ExcludedUnder(cf.rawIgnore \o <<"/","*","*">>)

\* C3 amended: the same, for the candidate lists that have no file whose
\* path is foo itself (foo names a folder).
C3_BareFolderExcludesAsFolderGlob ==
    CollectDone /\ cf.code = "OK" /\ cf.rawIgnore \in BareNames
                /\ cf.rawIgnore \notin Range(cf.candidates)
        => Excluded = ExcludedUnder(cf.rawIgnore \o <<"/","*","*">>)

\* A run where the bare name out leaves out a file of the folder and keeps
\* a file outside it.
C3_Witness ==
    /\ CollectDone /\ cf.code = "OK" /\ cf.rawIgnore = <<"o","u","t">>
    /\ <<"o","u","t","/","a",".","j","s">> \in Excluded
    /\ <<"s","r","c","/","a",".","t","s">> \in Range(cf.result)

\* ------------------------------------------------------------------
\* Claims about MarkdownProcessor.onFile
\* ------------------------------------------------------------------

\* onFile has run on a document the processor matches.
MarkdownRan == md.pc \in {"resolved", "rejected"} /\ md.file.path = <<"e","x","t","e","n","s","i","o","n","/","R","E","A","D","M","E",".","m","d">>

MarkdownResolved == md.pc = "resolved" /\ md.file.path = <<"e","x","t","e","n","s","i","o","n","/","R","E","A","D","M","E",".","m","d">>

\* The top-level links (not images) of the document handed in.
LinkPlaces == { i \in DOMAIN md.file.contents :
                  md.file.contents[i].k = "link" /\ ~md.file.contents[i].image }

\* No base URL can be inferred from the manifest: it names no GitHub repository.
NothingInferable ==
    \/ md.manifest.repository = NoRepository
    \/ Occurrences(md.manifest.repository.url, <<"g","i","t","h","u","b",".","c","o","m","/">>) = {}

\* C4: a relative link with neither an explicit base URL option nor an
\* inferable one makes onFile fail; with an explicit base content URL B the
\* link is rewritten to join(B, link); absolute and fragment links are passed
\* through unchanged.
C4_RelativeLinkFatalOrJoined ==
    /\ ( /\ MarkdownRan
         /\ \E i \in LinkPlaces : IsLinkRelative(md.file.contents[i].link)
         /\ ~Truthy(md.options.baseContentUrl) /\ ~Truthy(md.options.baseImagesUrl)
         /\ NothingInferable )
       => md.pc = "rejected"
    /\ MarkdownResolved =>
        \A i \in LinkPlaces :
            LET link == md.file.contents[i].link
            IN  /\ Truthy(md.options.baseContentUrl) /\ IsLinkRelative(link)
                    => md.out.contents[i].link = UrlJoin(<<md.options.baseContentUrl, link>>)
                /\ ~IsLinkRelative(link) => md.out.contents[i].link = link

\* A relative link rewritten against the explicit base content URL, beside a
\* fragment link left as it is.
C4_Witness ==
    /\ MarkdownResolved
    /\ md.options.baseContentUrl = <<"h","t","t","p","s",":","/","/","b",".","i","o","/","c","/">>
    /\ md.options.baseImagesUrl = <<"h","t","t","p","s",":","/","/","i",".","i","o">>
    /\ md.file.contents = << Link(<<>>, <<"d","o","c","/","a",".","m","d">>), Link(<<>>, <<"#","t","o","p">>) >>
    /\ md.out.contents = << Link(<<>>, <<"h","t","t","p","s",":","/","/","b",".","i","o","/","c","/","d","o","c","/","a",".","m","d">>), Link(<<>>, <<"#","t","o","p">>) >>

\* The places of a document where a relative link or image target stands in
\* the output as it stood in the input.
RECURSIVE UnresolvedTargets(_, _)
UnresolvedTargets(before, after) ==
    { i \in DOMAIN before :
        /\ before[i].k = "link"
        /\ \/ IsLinkRelative(before[i].link) /\ after[i].link = before[i].link
           \/ UnresolvedTargets(before[i].title, after[i].title) # {} }

\* C5: whenever onFile succeeds on a matched document, no relative link or
\* image target has been passed through unchanged: a relative target whose
\* kind has no base URL is always fatal.
C5_NoRelativeTargetUnresolved ==
    MarkdownResolved => UnresolvedTargets(md.file.contents, md.out.contents) = {}

\* An SVG data URI as the source of an image.
IsSvgDataUri(src) == StartsWith(ToLowerCase(src), <<"d","a","t","a",":","i","m","a","g","e","/","s","v","g">>)

\* C6: onFile fails whenever an image of the document has an SVG data URI as
\* its source, whatever the trusted hosts; it succeeds only if every image
\* source is HTTPS, no image source is an .svg file on a host that is not
\* trusted, and the document has no svg tag.
C6_ImagePolicy ==
    /\ ( /\ MarkdownRan
         /\ \E i \in DOMAIN md.file.contents :
               md.file.contents[i].k = "img" /\ IsSvgDataUri(md.file.contents[i].link) )
       => md.pc = "rejected"
    /\ MarkdownResolved =>
        /\ \A i \in DOMAIN md.out.contents : md.out.contents[i].k # "svg"
        /\ \A i \in DOMAIN ImgSources(md.out.contents) :
            LET src == ImgSources(md.out.contents)[i]
            IN  /\ StartsWith(ToLowerCase(src), <<"h","t","t","p","s",":">>)
                /\ EndsWith(ToLowerCase(UrlParse(src).pathname), <<".","s","v","g">>)
                    => UrlParse(src).host \in TrustedSVGSources

\* A document refused for its SVG data URI although all else in it is allowed.
C6_Witness ==
    /\ md.pc = "rejected" /\ md.error = "svg data url"
    /\ md.file.contents = << Image(<<"h","t","t","p","s",":","/","/","i","m","g",".","s","h","i","e","l","d","s",".","i","o","/","b",".","s","v","g">>),
                             HtmlImg(<<"d","a","t","a",":","i","m","a","g","e","/","s","v","g","+","x","m","l",";","b","a","s","e","6","4",",","A","A">>) >>

\* ------------------------------------------------------------------
\* Claims about the pipeline
\* ------------------------------------------------------------------

\* Every file has passed through every stage.
AllDone == \A i \in DOMAIN pf.chain : pf.chain[i].state = "done"

\* How many times the asset of this type and path is recorded, over all stages.
CountAssets(type, path) ==
    Cardinality({ j \in DOMAIN AssetsOf(pf.processors) :
                    AssetsOf(pf.processors)[j] = Asset(type, path) })

IconStage == CHOOSE k \in DOMAIN pf.processors : pf.processors[k].kind = "icon"

IconDeclared == Truthy(pf.manifest.icon)

DeclaredIconPath == <<"e","x","t","e","n","s","i","o","n","/">> \o pf.manifest.icon

\* The icon assets of the run, whatever stage recorded them.
IconAssets ==
    LET IsIcon(a) == a.type = IconAssetType IN Filter(AssetsOf(pf.processors), IsIcon)

\* The included files that have the declared icon path.
FilesAtIcon == { i \in DOMAIN pf.chain : pf.chain[i].file.path = DeclaredIconPath }

IconEndFailed == pf.pc = "rejected" /\ pf.error = "icon not found"

IconEndSucceeded == pf.pc \in {"finalize", "resolved"} /\ pf.ended >= IconStage

\* C7: with an icon declared, the finalize hook of the icon stage fails when
\* no included file has the declared path and fails only then; when it
\* succeeds, exactly one icon asset is recorded, with that path.  With no
\* icon declared the hook succeeds and no icon asset is recorded.
C7_IconFoundOrFatal ==
    /\ IconEndFailed => IconDeclared /\ FilesAtIcon = {}
    /\ IconEndSucceeded /\ IconDeclared
          => FilesAtIcon # {} /\ IconAssets = << Asset(IconAssetType, DeclaredIconPath) >>
    /\ IconEndSucceeded /\ ~IconDeclared => IconAssets = <<>>

\* A run of two files, one of them the declared icon, after the finalize
\* hook of the icon stage.
C7_Witness ==
    /\ pf.pc = "resolved" /\ IconDeclared
    /\ Len(pf.names) = 2 /\ Cardinality(FilesAtIcon) = 1
    /\ IconAssets = << Asset(IconAssetType, <<"e","x","t","e","n","s","i","o","n","/","i","c","o","n",".","p","n","g">>) >>

\* The languages that several localization entries of the manifest declare.
DuplicatedLanguages ==
    LET locs == pf.manifest.localizations
    IN  { ToUpperCase(locs[i].languageId) : i \in
            { i \in DOMAIN locs : \E j \in DOMAIN locs :
                j # i /\ ToUpperCase(locs[j].languageId) = ToUpperCase(locs[i].languageId) } }

\* The path a file must have to be the translation declared at path.
TranslationPath(path) == <<"e","x","t","e","n","s","i","o","n","/">> \o Normalize(StripDotSlash(path))

\* The translation paths declared for the language, in the order of the manifest.
DeclaredPaths(language) ==
    LET Mine(e) == ToUpperCase(e.languageId) = language
        Path(e) == TranslationPath(e.path)
    IN  Map(Filter(TranslationEntries(pf.manifest), Mine), Path)

\* The same, of the translations of VS Code itself (id 'vscode').
DeclaredCorePaths(language) ==
    LET Mine(e) == ToUpperCase(e.languageId) = language /\ e.id = <<"v","s","c","o","d","e">> /\ Truthy(e.path)
        Path(e) == TranslationPath(e.path)
    IN  Map(Filter(TranslationEntries(pf.manifest), Mine), Path)

Last(s) == s[Len(s)]

AllLanguages ==
    { ToUpperCase(pf.manifest.localizations[i].languageId) :
        i \in DOMAIN pf.manifest.localizations }

\* C8 as stated: for a language declared by several localization entries, a
\* file at the last translation path declared for it yields exactly one
\* asset of that language, and a file at an earlier declared path yields none.
C8_LastDeclaredPathOnly ==
    AllDone =>
        \A language \in DuplicatedLanguages :
            LET paths == DeclaredPaths(language)
            IN  \A i \in DOMAIN pf.chain :
                    LET path == pf.chain[i].file.path
                    IN  /\ path = Last(paths)
                            => CountAssets(TranslationAssetType(language), path) = 1
                        /\ path # Last(paths) /\ path \in Range(paths)
                            => CountAssets(TranslationAssetType(language), path) = 0

\* C8 amended: the paths that count are those of the translations with id
\* 'vscode'; for a language declared by several localization entries whose
\* last such path is not the last such path of another language, a file at
\* that path yields exactly one asset of the language and no other file
\* yields one.
C8_LastCorePathOnly ==
    AllDone =>
        \A language \in DuplicatedLanguages :
            LET paths == DeclaredCorePaths(language)
            IN  ( /\ paths # <<>>
                  /\ \A other \in AllLanguages \ {language} :
                        DeclaredCorePaths(other) = <<>>
                        \/ Last(DeclaredCorePaths(other)) # Last(paths) )
                => \A i \in DOMAIN pf.chain :
                      LET path == pf.chain[i].file.path
                      IN  CountAssets(TranslationAssetType(language), path)
                              = IF path = Last(paths) THEN 1 ELSE 0

\* Both translation files of a language declared twice are packaged; only
\* the one declared last is recorded, under the uppercase language id.
C8_Witness ==
    /\ AllDone
    /\ DuplicatedLanguages = { <<"D","E">> }
    /\ pf.names = << <<"i","1","8","n","/","d","e",".","j","s","o","n">>, <<"i","1","8","n","/","o","l","d",".","j","s","o","n">> >>
    /\ AssetsOf(pf.processors) =
          << Asset(<<"M","i","c","r","o","s","o","f","t",".","V","i","s","u","a","l","S","t","u","d","i","o",".","C","o","d","e",".","T","r","a","n","s","l","a","t","i","o","n",".","D","E">>, <<"e","x","t","e","n","s","i","o","n","/","i","1","8","n","/","d","e",".","j","s","o","n">>) >>

\* C9: a second run of processFiles on the inputs of a first run resolves to
\* the same manifest document and the same content-type document, whatever
\* the order in which the reads of the two runs complete.
C9_RerunSameDocuments ==
    pf.run = 2 /\ pf.pc = "resolved" =>
        /\ pf.result[1].contents = pf.first[1].contents
        /\ pf.result[2].contents = pf.first[2].contents

\* C10: when processFiles resolves, the path of every recorded asset is the
\* path of one of the files it resolves to.
C10_AssetPathsAmongFiles ==
    pf.pc = "resolved" =>
        \A j \in DOMAIN AssetsOf(pf.processors) :
            \E i \in 3..Len(pf.result) : pf.result[i].path = AssetsOf(pf.processors)[j].path

\* ------------------------------------------------------------------
\* Claims about the order of processFiles
\* ------------------------------------------------------------------

\* Every file has passed through the onFile of every processor.
EveryFileThroughEveryStage ==
    \A i \in DOMAIN pf.chain :
        pf.chain[i].state = "done" /\ pf.chain[i].next = Len(pf.processors) + 1

\* The tag list is written by the onEnd of the tags stage, the second.
TagsWritten == "tags" \in DOMAIN pf.processors[2].vsix

\* C11: no onEnd starts before every file has passed through the onFile of
\* every stage; the onEnd hooks run one at a time in the order of the
\* pipeline, stage k + 1 only after the onEnd of stage k has succeeded; and
\* after an onEnd that fails no other onEnd runs.
C11_OnEndAfterTransformsInOrder ==
    [][ /\ (pf.pc = "finalize" /\ pf'.pc # "resolved")
            => /\ EveryFileThroughEveryStage
               /\ \/ pf'.pc = "finalize" /\ pf'.ended = pf.ended + 1
                  \/ pf'.pc = "rejected" /\ pf'.ended = pf.ended
               /\ \A k \in DOMAIN pf.processors :
                     k # pf.ended + 1 => pf'.processors[k] = pf.processors[k]
        /\ pf'.ended # pf.ended => pf.pc = "finalize"
        /\ TagsWritten' => pf'.ended >= 2
        /\ pf.pc = "rejected" => pf' = pf
      ]_vars

\* The onEnd of the icon stage, the sixth, has failed after two files went
\* through every stage and five hooks succeeded: the seventh does not run.
C11_Witness ==
    /\ pf.pc = "rejected" /\ pf.ended = 5 /\ pf.error = "icon not found"
    /\ Len(pf.chain) = 2 /\ EveryFileThroughEveryStage
    /\ TagsWritten

\* ------------------------------------------------------------------
\* Claims about pack
\* ------------------------------------------------------------------

\* writeVsix has been called.
WriteVsixStarted == pk.pc \in { "unlink", "write", "done" } \/ pk.dest # pk.before

\* C12: when an onFile or an onEnd fails, pack fails and writeVsix is never
\* started: the package path holds what it held before, nothing removed from
\* it and nothing written to it.
C12_FatalLeavesDestinationUntouched ==
    pf.pc = "rejected" =>
        /\ ~WriteVsixStarted
        /\ pk.dest = pk.before /\ pk.written = <<>>
        /\ pk.pc = "failed" => pk.error = pf.error

\* pack has failed on a missing icon and on a relative link without a
\* repository, an old package at the path left where it was.
C12_Witness ==
    /\ pf.pc = "rejected" /\ pk.pc = "failed"
    /\ pf.error \in { "icon not found", "no repository" }
    /\ pk.before = "old package" /\ pk.dest = "old package"

\* ------------------------------------------------------------------
\* Claims about the entries processFiles resolves to
\* ------------------------------------------------------------------

\* entry is what the included file name has become: it has the path of the
\* file, or that path with the extension the license stage appends, and it is
\* still read from the file unless a stage has given it contents.
EntryOfFile(entry, name) ==
    /\ entry.path \in { FileOf(name).path, FileOf(name).path \o <<".","t","x","t">> }
    /\ "localPath" \in DOMAIN entry \/ "contents" \in DOMAIN entry
    /\ "localPath" \in DOMAIN entry => entry.localPath = name

\* C13: when processFiles succeeds its result is the manifest document, then
\* the content types document, then one entry for every included file, in
\* the order of the input files, none added and none dropped.
C13_ManifestThenTypesThenFilesInOrder ==
    pf.pc = "resolved" =>
        /\ Len(pf.result) = Len(pf.names) + 2
        /\ pf.result[1].path = <<"e","x","t","e","n","s","i","o","n",".","v","s","i","x","m","a","n","i","f","e","s","t">>
        /\ pf.result[2].path = <<"[","C","o","n","t","e","n","t","_","T","y","p","e","s","]",".","x","m","l">>
        /\ \A i \in DOMAIN pf.names : EntryOfFile(pf.result[i + 2], pf.names[i])

\* Two files, the first renamed by the license stage and the second given
\* contents by the readme stage, each in its place after the two documents.
C13_Witness ==
    /\ pf.pc = "resolved"
    /\ pf.names = << <<"L","I","C","E","N","S","E">>, <<"R","E","A","D","M","E",".","m","d">> >>
    /\ [i \in DOMAIN pf.result |-> pf.result[i].path] =
          << <<"e","x","t","e","n","s","i","o","n",".","v","s","i","x","m","a","n","i","f","e","s","t">>, <<"[","C","o","n","t","e","n","t","_","T","y","p","e","s","]",".","x","m","l">>,
             <<"e","x","t","e","n","s","i","o","n","/","L","I","C","E","N","S","E",".","t","x","t">>, <<"e","x","t","e","n","s","i","o","n","/","R","E","A","D","M","E",".","m","d">> >>
    /\ pf.result[3].localPath = <<"L","I","C","E","N","S","E">>
    /\ "contents" \in DOMAIN pf.result[4]

\* ------------------------------------------------------------------
\* Claims about the tags
\* ------------------------------------------------------------------

TagsEnded == tg.pc = "ended"

\* The tags of vsix.tags, the text between its commas.
TagList ==
    IF tg.proc.vsix.tags = <<>> THEN <<>> ELSE SplitAcc(tg.proc.vsix.tags, {","}, <<>>)

Deduplicated(list) == \A i, j \in DOMAIN list : list[i] = list[j] => i = j

\* The tags every contribution category stands for.
CategoryTags == <<
    [name |-> "themes", tags |-> << <<"t","h","e","m","e">>, <<"c","o","l","o","r","-","t","h","e","m","e">> >>],
    [name |-> "iconThemes", tags |-> << <<"t","h","e","m","e">>, <<"i","c","o","n","-","t","h","e","m","e">> >>],
    [name |-> "snippets", tags |-> << <<"s","n","i","p","p","e","t">> >>],
    [name |-> "keybindings", tags |-> << <<"k","e","y","b","i","n","d","i","n","g","s">> >>],
    [name |-> "debuggers", tags |-> << <<"d","e","b","u","g","g","e","r","s">> >>],
    [name |-> "jsonValidation", tags |-> << <<"j","s","o","n">> >>] >>

\* The manifest has contributions in the category.
HasContributions(manifest, name) ==
    /\ "contributes" \in DOMAIN manifest
    /\ name \in DOMAIN manifest.contributes
    /\ manifest.contributes[name] # <<>>

\* word stands in text as a word of its own, in any case: no letter, digit
\* or underscore right before it or right after it. lower is text in lower
\* case.
OccursAsWord(word, text, lower) ==
    \E i \in 1..(Len(text) - Len(word) + 1) :
        /\ SubSeq(lower, i, i + Len(word) - 1) = ToLowerCase(word)
        /\ i = 1 \/ ~IsWordChar(text[i - 1])
        /\ i + Len(word) > Len(text) \/ ~IsWordChar(text[i + Len(word)])

\* The description of the manifest, empty without one.
DescriptionOf(manifest) ==
    IF "description" \in DOMAIN manifest THEN manifest.description ELSE <<>>

\* The explicit keywords of the manifest.
ExplicitKeywords(manifest) ==
    IF "keywords" \in DOMAIN manifest THEN Range(manifest.keywords) ELSE {}

\* tags has the fixed tags of every category with contributions and the
\* tags of every lexicon word of the description.
HasCategoryAndLexiconTags(tags) ==
    /\ \A c \in DOMAIN CategoryTags :
          HasContributions(tg.manifest, CategoryTags[c].name)
              => Range(CategoryTags[c].tags) \subseteq tags
    /\ Let(ToLowerCase(DescriptionOf(tg.manifest)), LAMBDA lower :
           \A k \in DOMAIN Keywords :
              OccursAsWord(Keywords[k].key, DescriptionOf(tg.manifest), lower)
                  => Range(Keywords[k].tags) \subseteq tags)

\* C14 as stated: after onEnd the tag list has no tag twice and holds every
\* explicit keyword, the fixed tags of every category with contributions and
\* the tags of every lexicon word of the description.
C14_TagsHoldEveryKeyword ==
    TagsEnded =>
        /\ Let(TagList, Deduplicated)
        /\ Let(Range(TagList), LAMBDA tags :
               /\ HasCategoryAndLexiconTags(tags)
               /\ ExplicitKeywords(tg.manifest) \subseteq tags)

\* C14 amended: the same, for the explicit keywords that are not empty; an
\* empty keyword is left out of the list.
C14_TagsHoldEveryNonEmptyKeyword ==
    TagsEnded =>
        /\ Let(TagList, Deduplicated)
        /\ Let(Range(TagList), LAMBDA tags :
               /\ HasCategoryAndLexiconTags(tags)
               /\ <<>> \notin tags
               /\ ExplicitKeywords(tg.manifest) \ { <<>> } \subseteq tags)

\* No keywords, a theme and a description with the word python.
C14_Witness ==
    /\ TagsEnded
    /\ ExplicitKeywords(tg.manifest) = {}
    /\ "contributes" \in DOMAIN tg.manifest
    /\ DOMAIN tg.manifest.contributes = { "themes" }
    /\ HasContributions(tg.manifest, "themes")
    /\ DescriptionOf(tg.manifest) = <<"P","y","t","h","o","n"," ","t","o","o","l","s">>
    /\ tg.manifest.localizations = <<>>
    /\ tg.proc.vsix.tags = <<"t","h","e","m","e",",","c","o","l","o","r","-","t","h","e","m","e",",","p","y","t","h","o","n">>

\* ------------------------------------------------------------------
\* Claims about the assets and metadata processFiles puts together
\* ------------------------------------------------------------------

\* The assets of the first k stages, stage after stage.
RECURSIVE AssetsUpTo(_)
AssetsUpTo(k) == IF k = 0 THEN <<>> ELSE AssetsUpTo(k - 1) \o pf.processors[k].assets

\* The stages whose metadata has the key.
StagesSetting(key) == { k \in DOMAIN pf.processors : key \in DOMAIN pf.processors[k].vsix }

\* The last of a set of stages.
LastStage(S) == CHOOSE k \in S : \A j \in S : j <= k

\* The metadata the manifest document was written from.
MergedVsix == pf.result[1].contents

\* C15: after every onEnd has succeeded the asset list is the asset lists of
\* the stages one after another in the order of the pipeline, and the
\* metadata has every key some stage has set, each with the value of the
\* last stage that sets it.
C15_AssetsConcatenatedVsixLastWins ==
    pf.pc = "resolved" =>
        /\ pf.ended = Len(pf.processors)
        /\ MergedVsix.assets = AssetsUpTo(Len(pf.processors))
        /\ DOMAIN MergedVsix =
              { "assets" } \cup UNION { DOMAIN pf.processors[k].vsix : k \in DOMAIN pf.processors }
        /\ \A key \in DOMAIN MergedVsix \ { "assets" } :
              MergedVsix[key] = pf.processors[LastStage(StagesSetting(key))].vsix[key]

\* A key set three times and keys of the default processors set again before
\* and after them: the license and tags stages win over the early processor,
\* the late processors win over the icon stage, and the assets stand in the
\* order of the stages.
C15_Witness ==
    /\ pf.pc = "resolved"
    /\ pf.names = << <<"L","I","C","E","N","S","E">> >>
    /\ Len(pf.processors) = 10
    /\ MergedVsix.license = <<"e","x","t","e","n","s","i","o","n","/","L","I","C","E","N","S","E",".","t","x","t">>
    /\ MergedVsix.tags = <<>>
    /\ MergedVsix.icon = <<"l","a","t","e">>
    /\ MergedVsix.extra = <<"l","a","s","t">>
    /\ MergedVsix.assets = << Asset(<<"C","u","s","t","o","m",".","E","a","r","l","y">>, <<"e","x","t","e","n","s","i","o","n","/","e","a","r","l","y">>),
                              Asset(LicenseAssetType, <<"e","x","t","e","n","s","i","o","n","/","L","I","C","E","N","S","E",".","t","x","t">>),
                              Asset(<<"C","u","s","t","o","m",".","L","a","t","e">>, <<"e","x","t","e","n","s","i","o","n","/","l","a","t","e">>) >>

\* ------------------------------------------------------------------
\* Claims about the license stage
\* ------------------------------------------------------------------

LicenseStage == CHOOSE k \in DOMAIN pf.processors : pf.processors[k].kind = "license"

\* The file whose turn it is stands before the license stage: the next step
\* of processFiles is the onFile of the license stage on this file.
LicenseTurn ==
    /\ pf.pc = "transform" /\ pf.queue # <<>>
    /\ pf.chain[Head(pf.queue)].next = LicenseStage

\* The file matches the license filter.
MatchesLicense(file) == LicenseFilter(pf.processors[LicenseStage], Normalize(file.path))

\* The path of the file, with .txt behind it when it has no extension.
WithExtension(path) == IF ExtName(path) = <<>> THEN path \o <<".","t","x","t">> ELSE path

\* C16: the license stage records at most one asset. The first file to come
\* to the stage that matches the filter is recorded, as the asset and as
\* vsix.license, under its path with .txt appended when it has no extension,
\* and goes on under that path; every file that comes later goes on as it
\* came, nothing recorded and nothing renamed, whether it matches or not.
C16_FirstLicenseMatchOnly ==
    [][ LicenseTurn =>
          LET i      == Head(pf.queue)
              before == pf.processors[LicenseStage]
              after  == pf'.processors[LicenseStage]
              file   == pf.chain[i].file
          IN  /\ Len(after.assets) <= 1
              /\ pf'.chain[i].next = LicenseStage + 1
              /\ IF before.assets = <<>> /\ MatchesLicense(file)
                    THEN /\ after.assets =
                              << Asset(LicenseAssetType, WithExtension(Normalize(file.path))) >>
                         /\ after.vsix.license = WithExtension(Normalize(file.path))
                         /\ pf'.chain[i].file = [file EXCEPT !.path = WithExtension(file.path)]
                    ELSE /\ after.assets = before.assets
                         /\ after.vsix = before.vsix
                         /\ pf'.chain[i].file = file
      ]_vars

\* Two files that match the filter have passed the license stage: README.md
\* came first and is the license, README_md came later and keeps its name.
C16_Witness ==
    /\ pf.pc \in { "transform", "finalize", "resolved" }
    /\ pf.names = << <<"R","E","A","D","M","E",".","m","d">>, <<"R","E","A","D","M","E","_","m","d">> >>
    /\ \A i \in DOMAIN pf.chain : pf.chain[i].next > LicenseStage
    /\ pf.processors[LicenseStage].assets = << Asset(LicenseAssetType, <<"e","x","t","e","n","s","i","o","n","/","R","E","A","D","M","E",".","m","d">>) >>
    /\ pf.processors[LicenseStage].vsix.license = <<"e","x","t","e","n","s","i","o","n","/","R","E","A","D","M","E",".","m","d">>
    /\ pf.chain[2].file.path = <<"e","x","t","e","n","s","i","o","n","/","R","E","A","D","M","E","_","m","d">>
====
